---- MODULE Spec2Model ----
(***************************************************************************)
(* A model of kjson: the in-place string decoder, the leaf readers, the    *)
(* recursive and the stackless event parser and the tree builder.          *)
(*                                                                         *)
(* The input buffer is a sequence of bytes (0..255) indexed from 1 whose   *)
(* last byte is the NUL terminator; a C pointer into the buffer is the     *)
(* index of the byte it points at.                                         *)
(***************************************************************************)
EXTENDS Integers, Sequences, FiniteSets, TLC

VARIABLES
    src,        \* the buffer as handed to the call (never changes)
    buf,        \* the buffer as the running call has rewritten it
    mode,       \* build variant and alignment of the string scan
    pc,         \* position of the driver: which call runs / has finished
    sres,       \* result record of kjson_read_string_utf8 ("none" before)
    p,          \* struct kjson_parser: the cursor p.s, an index into buf
    mid2,       \* kjson_parse_mid2: depth, leaf_have_str and the union leaf
    trace,      \* the callbacks kjson_parse_mid2 has made so far
    rec,        \* outcome of kjson_parse_mid_rec on a copy of the document
    high_cb,    \* struct high_cb with the heap and the destination value
    result,     \* what kjson_parse returned ("none" before)
    fin,        \* heap and free() calls of kjson_value_fini
    num,        \* results of kjson_read_number and kjson_read_integer
    cxx         \* a call of a member of kjson_impl<opt_throw>: value, request, outcome

vars == << src, buf, mode, pc, sres, p, mid2, trace, rec, high_cb, result, fin, num, cxx >>
parse_vars == << p, mid2, trace, rec, high_cb, result, fin, num >>

----------------------------------------------------------------------------
(* Bytes the code names by character literal. *)
NUL    == 0
QUOTE  == 34
BSLASH == 92
CTRLMAX == 31

(* Bit operations on naturals, bit by bit. *)
RECURSIVE BitAnd(_, _)
BitAnd(a, b) ==
    IF a = 0 \/ b = 0 THEN 0
    ELSE (IF a % 2 = 1 /\ b % 2 = 1 THEN 1 ELSE 0) + 2 * BitAnd(a \div 2, b \div 2)

RECURSIVE BitOr(_, _)
BitOr(a, b) ==
    IF a = 0 THEN b
    ELSE IF b = 0 THEN a
    ELSE (IF a % 2 = 1 \/ b % 2 = 1 THEN 1 ELSE 0) + 2 * BitOr(a \div 2, b \div 2)

RECURSIVE BitXor(_, _)
BitXor(a, b) ==
    IF a = 0 THEN b
    ELSE IF b = 0 THEN a
    ELSE (IF a % 2 # b % 2 THEN 1 ELSE 0) + 2 * BitXor(a \div 2, b \div 2)

(* x & ~m *)
BitAndNot(x, m) == x - BitAnd(x, m)

(* The bytes [begin, begin+len) of a string slice. *)
Slice(mem, begin, len) == SubSeq(mem, begin, begin + len - 1)

(* Conversion of an unsigned value to char on assignment. *)
ToChar(x) == x % 256

----------------------------------------------------------------------------
(* strchr(3) over a NUL-terminated string constant: the 0-based offset of   *)
(* the first occurrence of c, the terminator included; -1 for NULL.         *)
strchr(str, c) ==
    LET z == str \o << NUL >>
        hits == { i \in 1..Len(z) : z[i] = c }
    IN  IF hits = {} THEN -1
        ELSE (CHOOSE i \in hits : \A j \in hits : i <= j) - 1

str_subst1 == << 34, 92, 47, 8, 12, 10, 13, 9 >>
str_pat    == << 34, 92, 47, 98, 102, 110, 114, 116, 117 >>

(* hex4: converts the hex string u[0..3]; ok is FALSE at the first byte     *)
(* that is no hex digit.  over is TRUE when a byte after the buffer's       *)
(* terminator would be read.                                                *)
RECURSIVE hex4_loop(_, _, _, _)
hex4_loop(mem, u, i, uni) ==
    IF i = 4 THEN [ok |-> TRUE, over |-> FALSE, uni |-> uni]
    ELSE IF u > Len(mem) THEN [ok |-> FALSE, over |-> TRUE, uni |-> uni]
    ELSE LET c == mem[u] IN
         IF 48 <= c /\ c <= 57
           THEN hex4_loop(mem, u + 1, i + 1, BitOr(uni * 16, c - 48))
         ELSE IF 65 <= c /\ c <= 70
           THEN hex4_loop(mem, u + 1, i + 1, BitOr(uni * 16, 10 + (c - 65)))
         ELSE IF 97 <= c /\ c <= 102
           THEN hex4_loop(mem, u + 1, i + 1, BitOr(uni * 16, 10 + (c - 97)))
         ELSE [ok |-> FALSE, over |-> FALSE, uni |-> uni]

hex4(mem, u) == hex4_loop(mem, u, 0, 0)

(* Store a run of bytes at the write pointer r. *)
RECURSIVE Put(_, _, _)
Put(mem, r, bytes) ==
    IF bytes = << >> THEN mem
    ELSE Put([mem EXCEPT ![r] = ToChar(Head(bytes))], r + 1, Tail(bytes))

EscFail(mem, r, s, over) == [ok |-> FALSE, over |-> over, mem |-> mem, r |-> r, s |-> s]
EscDone_shifted(mem, r, s, bytes) ==
    [ok |-> TRUE, over |-> FALSE, mem |-> Put(mem, r - 1, bytes), r |-> r + Len(bytes), s |-> s]
EscDone(mem, r, s, bytes) ==
    [ok |-> TRUE, over |-> FALSE, mem |-> Put(mem, r, bytes), r |-> r + Len(bytes), s |-> s]

(* lines 154-155, 157-159 and 171-174: the UTF-8 bytes escaped stores.      *)
utf8_2(uni) == << BitOr(192, uni \div 64), BitOr(128, BitAnd(uni, 63)) >>

(* utf8_3 storing seven bytes, one more than the escape is long *)
utf8_3_wide(uni) ==
    << BitOr(224, uni \div 4096),
       BitOr(128, BitAnd(uni \div 64, 63)),
       BitOr(128, BitAnd(uni, 63)), 128, 128, 128, 128 >>

utf8_3(uni) ==
    << BitOr(224, uni \div 4096),
       BitOr(128, BitAnd(uni \div 64, 63)),
       BitOr(128, BitAnd(uni, 63)) >>

(* utf8_4 with the lead byte of the three-byte form *)
utf8_4_lead3(v) ==
    << BitOr(224, v \div 262144),
       BitOr(128, BitAnd(v \div 4096, 63)),
       BitOr(128, BitAnd(v \div 64, 63)),
       BitOr(128, BitAnd(v, 63)) >>

utf8_4(v) ==
    << BitOr(240, v \div 262144),
       BitOr(128, BitAnd(v \div 4096, 63)),
       BitOr(128, BitAnd(v \div 64, 63)),
       BitOr(128, BitAnd(v, 63)) >>

(* surrogate_value without the final v += 0x10000 *)
surrogate_value_nobase(uni, lo) ==
    BitOr(BitAndNot(uni, 56320) * 1024, BitAndNot(lo, 56320))

(* lines 167-170: the code point of the pair (uni, lo) *)
surrogate_value(uni, lo) ==
    BitOr(BitAndNot(uni, 56320) * 1024, BitAndNot(lo, 56320)) + 65536

(* the range test of line 164 left out *)
lo_unchecked(lo) == TRUE

(* line 164: lo is a low surrogate *)
lo_in_range(lo) == 56320 <= lo /\ lo < 57344

(* escaped: decodes the escape sequence whose selector byte is at s (the    *)
(* byte after the backslash) to the write pointer r.                        *)
escaped(mem, r, s) ==
    LET at == strchr(str_pat, mem[s]) IN
    IF at = -1 THEN EscFail(mem, r, s, FALSE)
    ELSE IF at <= 7 THEN EscDone(mem, r, s + 1, << str_subst1[at + 1] >>)
    ELSE
      LET h  == hex4(mem, s + 1)
          s1 == s + 1
          s5 == s + 5
          uni == h.uni
      IN
      IF ~h.ok THEN EscFail(mem, r, s1, h.over)
      ELSE IF uni < 128 THEN EscDone(mem, r, s5, << uni >>)
      ELSE IF uni < 2048 THEN EscDone(mem, r, s5, utf8_2(uni))
      ELSE IF uni < 55296 \/ uni >= 57344 THEN EscDone(mem, r, s5, utf8_3(uni))
      ELSE IF uni < 56320 THEN
          IF mem[s5] # BSLASH THEN EscFail(mem, r, s5, FALSE)
          ELSE IF mem[s5 + 1] # 117 THEN EscFail(mem, r, s5, FALSE)
          ELSE LET l == hex4(mem, s5 + 2) IN
               IF ~l.ok \/ ~lo_in_range(l.uni) THEN EscFail(mem, r, s5, l.over)
               ELSE EscDone(mem, r, s5 + 6, utf8_4(surrogate_value(uni, l.uni)))
      ELSE EscFail(mem, r, s5, FALSE)

----------------------------------------------------------------------------
(* sizeof(unsigned long) of the build (LONG_BIT == 32). *)
WordBytes == 4

(* The byte at index i; bytes of an aligned word that lie after the         *)
(* terminator read as tb, a value the caller does not control.              *)
ByteAt(mem, i, tb) == IF i <= Len(mem) THEN mem[i] ELSE tb

(* The four bytes of the unsigned long at s, least significant first.       *)
LoadWord(mem, s, tb) == [k \in 1..WordBytes |-> ByteAt(mem, s + k - 1, tb)]

(* UL_REPEATED8(v): v in every byte of the word.                            *)
UL_REPEATED8(v) == [k \in 1..WordBytes |-> v]

WordXor_low(x, y) == [k \in 1..WordBytes |-> IF k = 1 THEN BitXor(x[k], y[k]) ELSE x[k]]
WordXor(x, y) == [k \in 1..WordBytes |-> BitXor(x[k], y[k])]
WordAndNot(x, y) == [k \in 1..WordBytes |-> BitAndNot(x[k], y[k])]

(* x - y on words, byte by byte with the borrow carried upwards.            *)
RECURSIVE WordSubFrom(_, _, _, _)
WordSubFrom(x, y, k, borrow) ==
    IF k > WordBytes THEN << >>
    ELSE LET t == x[k] - y[k] - borrow IN
         << (t + 256) % 256 >> \o WordSubFrom(x, y, k + 1, IF t < 0 THEN 1 ELSE 0)

WordSub(x, y) == WordSubFrom(x, y, 1, 0)

(* ((a - ones) & ~a) & high_bits is not zero *)
ZeroByteTest(a) ==
    LET m == WordSub(a, UL_REPEATED8(1))
    IN  \E k \in 1..WordBytes :
            BitAnd(BitAndNot(m[k], a[k]), 128) # 0

(* the comparison written as < 0x1f *)
IsControl_lt(c) == c < CTRLMAX

(* (unsigned char)*p->s <= 0x1f *)
IsControl(c) == c <= CTRLMAX

ScanEscape(s) == [esc |-> TRUE, s |-> s]
ScanFail(s)   == [esc |-> FALSE, s |-> s]

(* lines 210-214: the byte-at-a-time search of a build without              *)
(* UL_REPEATED8.                                                            *)
RECURSIVE ByteScan(_, _)
ByteScan(mem, s) ==
    IF mem[s] = QUOTE \/ mem[s] = BSLASH THEN ScanEscape(s)
    ELSE IF IsControl(mem[s]) THEN ScanFail(s)
    ELSE ByteScan(mem, s + 1)

(* lines 225-240: the search sizeof(unsigned long) bytes at a time.         *)
RECURSIVE WordScan(_, _, _)
WordScan(mem, s, tb) ==
    LET x == LoadWord(mem, s, tb)
        a == WordXor(x, UL_REPEATED8(QUOTE))
        b == WordXor(x, UL_REPEATED8(BSLASH))
        d == WordAndNot(x, UL_REPEATED8(CTRLMAX))
    IN  IF ZeroByteTest(a) \/ ZeroByteTest(b) THEN ScanEscape(s)
        ELSE IF ZeroByteTest(d) THEN ScanFail(s)
        ELSE WordScan(mem, s + WordBytes, tb)

(* lines 217-222: the slow search until the pointer is aligned; align is    *)
(* the address of the buffer's first byte modulo the word size.             *)
RECURSIVE AlignScan(_, _, _, _)
AlignScan(mem, s, align, tb) ==
    IF (align + s - 1) % WordBytes = 0 THEN WordScan(mem, s, tb)
    ELSE IF mem[s] = QUOTE \/ mem[s] = BSLASH THEN ScanEscape(s)
    ELSE IF IsControl(mem[s]) THEN ScanFail(s)
    ELSE AlignScan(mem, s + 1, align, tb)

FastScan(mem, s, md, tb) ==
    IF md.word THEN AlignScan(mem, s, md.align, tb) ELSE ByteScan(mem, s)

StrFail(mem, s, begin, over) ==
    [ok |-> FALSE, over |-> over, mem |-> mem, s |-> s, begin |-> begin, len |-> 0]

(* StrDone storing the terminator over the closing quote instead of at the *)
(* write pointer                                                            *)
StrDone_at_quote(mem, s, end, begin) ==
    [ok |-> TRUE, over |-> FALSE, mem |-> [mem EXCEPT ![s] = NUL],
     s |-> s + 1, begin |-> begin, len |-> end - begin]

(* lines 259-263: the closing quote is at s; terminate, set *len, skip it.  *)
StrDone(mem, s, end, begin) ==
    [ok |-> TRUE, over |-> FALSE, mem |-> [mem EXCEPT ![end] = NUL],
     s |-> s + 1, begin |-> begin, len |-> end - begin]

(* lines 242-258: the rewrite loop from the label escape on; end is the     *)
(* write pointer.                                                           *)
RECURSIVE Rewrite(_, _, _, _)
Rewrite(mem, s, end, begin) ==
    IF mem[s] = QUOTE THEN StrDone(mem, s, end, begin)
    ELSE IF IsControl(mem[s]) THEN StrFail(mem, s, begin, FALSE)
    ELSE IF mem[s] = BSLASH THEN
        LET e == escaped(mem, end, s + 1) IN
        IF ~e.ok THEN StrFail(e.mem, e.s, begin, e.over)
        ELSE Rewrite(e.mem, e.s, e.r, begin)
    ELSE Rewrite(IF end # s THEN [mem EXCEPT ![end] = mem[s]] ELSE mem,
                 s + 1, end + 1, begin)

(* kjson_read_string_utf8 with the cursor at s.  The result holds the       *)
(* rewritten buffer, the cursor, *begin and *len.                           *)
kjson_read_string_utf8(mem, s, md, tb) ==
    IF mem[s] # QUOTE THEN StrFail(mem, s, s, FALSE)
    ELSE LET begin == s + 1
             sc == FastScan(mem, begin, md, tb)
         IN  IF ~sc.esc THEN StrFail(mem, sc.s, begin, FALSE)
             ELSE Rewrite(mem, sc.s, sc.s, begin)

----------------------------------------------------------------------------
(* Eval(e, F): F applied to the value of e.  The value is computed once,   *)
(* however often F uses it; the result of a call is bound this way.         *)
Eval(e, F(_)) == CHOOSE y \in { F(x) : x \in { e } } : TRUE

(* skip_space: p->s += strspn(p->s, "\t\r\n ") *)
IsSpace(c) == c \in { 9, 13, 10, 32 }

RECURSIVE skip_space(_, _)
skip_space(mem, s) == IF IsSpace(mem[s]) THEN skip_space(mem, s + 1) ELSE s

(* !strncmp(p->s, lit, Len(lit)) for a literal without NUL *)
StartsWith(mem, s, lit) ==
    /\ s + Len(lit) - 1 <= Len(mem)
    /\ SubSeq(mem, s, s + Len(lit) - 1) = lit

(* Decimal numerals as digit sequences without leading zeros, so that the   *)
(* full range of uintmax_t can be compared.                                 *)
RECURSIVE StripZeros(_)
StripZeros(ds) ==
    IF ds # << >> /\ Head(ds) = 0 THEN StripZeros(Tail(ds)) ELSE ds

RECURSIVE LexLess(_, _)
LexLess(a, b) ==
    IF a = << >> THEN FALSE
    ELSE IF Head(a) # Head(b) THEN Head(a) < Head(b)
    ELSE LexLess(Tail(a), Tail(b))

NumLess(a, b) == Len(a) < Len(b) \/ (Len(a) = Len(b) /\ LexLess(a, b))

UINTMAX_MAX == << 1,8,4,4,6,7,4,4,0,7,3,7,0,9,5,5,1,6,1,5 >>
INTMAX_MAX  == << 9,2,2,3,3,7,2,0,3,6,8,5,4,7,7,5,8,0,7 >>
INTMAX_MAX_P1 == << 9,2,2,3,3,7,2,0,3,6,8,5,4,7,7,5,8,0,8 >>
LONG_MAX    == << 2,1,4,7,4,8,3,6,4,7 >>

IsDigit(c) == 48 <= c /\ c <= 57

RECURSIVE DigitRun(_, _)
DigitRun(mem, s) ==
    IF IsDigit(mem[s]) THEN << mem[s] - 48 >> \o DigitRun(mem, s + 1) ELSE << >>

(* isspace(3) in the C locale, skipped by strtoumax and strtol *)
IsCSpace(c) == c \in { 9, 10, 11, 12, 13, 32 }

RECURSIVE SkipCSpace(_, _)
SkipCSpace(mem, s) == IF IsCSpace(mem[s]) THEN SkipCSpace(mem, s + 1) ELSE s

(* strtoumax(nptr, &t, 10) and strtol(nptr, &t, 10): white space, an        *)
(* optional sign, decimal digits.  mag is the magnitude read, sneg the      *)
(* sign the function itself consumed, erange the overflow report (errno),   *)
(* t the end pointer (nptr when there is no digit).                         *)
StrToInt(mem, nptr, max) ==
    LET s0 == SkipCSpace(mem, nptr)
        signed == mem[s0] = 43 \/ mem[s0] = 45
        s1 == IF signed THEN s0 + 1 ELSE s0
        run == DigitRun(mem, s1)
        mag == StripZeros(run)
    IN  IF run = << >>
        THEN [t |-> nptr, mag |-> << >>, sneg |-> FALSE, erange |-> FALSE]
        ELSE [t |-> s1 + Len(run),
              mag |-> IF NumLess(max, mag) THEN max ELSE mag,
              sneg |-> mem[s0] = 45,
              erange |-> NumLess(max, mag)]

strtoumax(mem, nptr) == StrToInt(mem, nptr, UINTMAX_MAX)
strtol(mem, nptr) == StrToInt(mem, nptr, LONG_MAX)

TWO64 == << 1,8,4,4,6,7,4,4,0,7,3,7,0,9,5,5,1,6,1,6 >>

(* a - b for numerals a >= b, digit by digit from the right *)
DigitFromRight(a, i) == IF i <= Len(a) THEN a[Len(a) - i + 1] ELSE 0

RECURSIVE SubFrom(_, _, _, _)
SubFrom(a, b, i, borrow) ==
    IF i > Len(a) THEN << >>
    ELSE Eval(DigitFromRight(a, i) - DigitFromRight(b, i) - borrow, LAMBDA d :
              IF d < 0 THEN Append(SubFrom(a, b, i + 1, 1), d + 10)
              ELSE Append(SubFrom(a, b, i + 1, 0), d))

NumSub(a, b) == StripZeros(SubFrom(a, b, 1, 0))

(* the uintmax_t strtoumax returned: UINTMAX_MAX on overflow, 2^64 - mag    *)
(* for a magnitude the function negated itself                              *)
UintValue(v) ==
    IF v.erange THEN UINTMAX_MAX
    ELSE IF v.sneg /\ v.mag # << >> THEN NumSub(TWO64, v.mag)
    ELSE v.mag

(* v > INTMAX_MAX for the unsigned value strtoumax returned *)
AboveIntmaxMax(v) == NumLess(INTMAX_MAX, UintValue(v))

(* intmax_t w = v: values above INTMAX_MAX wrap to v - 2^64 *)
ToIntmax(u) ==
    IF NumLess(INTMAX_MAX, u) THEN [neg |-> TRUE, mag |-> NumSub(TWO64, u)]
    ELSE [neg |-> FALSE, mag |-> u]

(* w = -w for an intmax_t above INTMAX_MIN *)
Negate_keep(w) == w
Negate(w) == [neg |-> ~w.neg /\ w.mag # << >>, mag |-> w.mag]

(* strtod(t, &t) with t at a '.': digits, then an optional exponent; no     *)
(* digit means no conversion.  Only the end pointer is modelled.            *)
strtod_end(mem, t) ==
    LET frac == DigitRun(mem, t + 1)
        e == t + 1 + Len(frac)
        es == IF mem[e + 1] = 43 \/ mem[e + 1] = 45 THEN e + 2 ELSE e + 1
        ex == DigitRun(mem, es)
    IN  IF frac = << >> THEN t
        ELSE IF (mem[e] = 69 \/ mem[e] = 101) /\ ex # << >> THEN es + Len(ex)
        ELSE e

KJSON_LEAF_NULL == 0
KJSON_LEAF_BOOLEAN == 1
KJSON_LEAF_NUMBER_INTEGER == 2
KJSON_LEAF_NUMBER_DOUBLE == 3
KJSON_LEAF_STRING == 4

(* union kjson_leaf_raw: b, the integer as sign and magnitude, the double   *)
(* as the source text it was converted from, the string slice.              *)
NoLeaf ==
    [b |-> FALSE, ineg |-> FALSE, imag |-> << >>, d |-> << >>,
     begin |-> 0, len |-> 0]

LeafFail(mem, s, leaf, over) ==
    [r |-> -1, over |-> over, mem |-> mem, s |-> s, leaf |-> leaf]
LeafDone(r, mem, s, leaf) ==
    [r |-> r, over |-> FALSE, mem |-> mem, s |-> s, leaf |-> leaf]

(* kjson_read_number, after the call of strtoumax *)
read_number_tail(mem, s, s1, pos, v, leaf) ==
    IF v.t = s1 \/ v.erange THEN LeafFail(mem, s1, leaf, FALSE)
    ELSE IF mem[v.t] = 46 THEN
        Eval(strtod_end(mem, v.t), LAMBDA t2 :
            LeafDone(KJSON_LEAF_NUMBER_DOUBLE, mem, t2,
                     [leaf EXCEPT !.d = SubSeq(mem, s, t2 - 1)]))
    ELSE IF mem[v.t] = 69 \/ mem[v.t] = 101 THEN
        Eval(strtol(mem, v.t + 1), LAMBDA x :
            IF x.erange THEN LeafFail(mem, s1, leaf, FALSE)
            ELSE LeafDone(KJSON_LEAF_NUMBER_DOUBLE, mem, x.t,
                          [leaf EXCEPT !.d = SubSeq(mem, s, x.t - 1)]))
    ELSE IF ~pos /\ AboveIntmaxMax(v) THEN LeafFail(mem, s1, leaf, FALSE)
    ELSE Eval(ToIntmax(UintValue(v)), LAMBDA w :
         Eval(IF pos THEN w ELSE Negate(w), LAMBDA w1 :
              LeafDone(KJSON_LEAF_NUMBER_INTEGER, mem, v.t,
                       [leaf EXCEPT !.ineg = w1.neg, !.imag = w1.mag])))

kjson_read_number(mem, s, leaf) ==
    LET pos == mem[s] # 45
        s1  == IF pos THEN s ELSE s + 1
    IN  Eval(strtoumax(mem, s1), LAMBDA v : read_number_tail(mem, s, s1, pos, v, leaf))

(* kjson_read_integer: the return value, the cursor and *v as sign and      *)
(* magnitude                                                                *)
IntRet(ok, s, v) == [ok |-> ok, s |-> s, v |-> v]

read_integer_tail(mem, s1, pos, i) ==
    Eval(ToIntmax(UintValue(i)), LAMBDA w :
        IF ~pos /\ AboveIntmaxMax(i) THEN IntRet(FALSE, s1, w)
        ELSE IntRet(mem[i.t] # 46, i.t, IF pos THEN w ELSE Negate(w)))

kjson_read_integer(mem, s) ==
    LET pos == mem[s] # 45
        s1  == IF pos THEN s ELSE s + 1
    IN  IF mem[s1] = 48
        THEN IntRet(mem[s1 + 1] # 46, s1 + 1, [neg |-> FALSE, mag |-> << >>])
        ELSE Eval(strtoumax(mem, s1), LAMBDA i : read_integer_tail(mem, s1, pos, i))

(* cb->read_other == NULL, the setting of kjson_parse *)
NoReadOther == [null |-> TRUE, accept |-> {}, ret |-> -1]

(* A read_other of the caller, as kjson_read_other_f documents it: on a     *)
(* byte it accepts it advances the cursor past that byte and returns the    *)
(* kind f.ret, on any other byte it returns a negative value.               *)
read_other(f, mem, s, leaf) ==
    IF mem[s] \in f.accept THEN LeafDone(f.ret, mem, s + 1, leaf)
    ELSE LeafFail(mem, s, leaf, FALSE)

(* kjson_parse_leaf; md.read_other is cb->read_other *)
kjson_parse_leaf_builtin(mem, s, leaf, md, tb) ==
    IF mem[s] = QUOTE THEN
        Eval(kjson_read_string_utf8(mem, s, md, tb), LAMBDA r :
            IF ~r.ok THEN LeafFail(r.mem, r.s, leaf, r.over)
            ELSE LeafDone(KJSON_LEAF_STRING, r.mem, r.s,
                          [leaf EXCEPT !.begin = r.begin, !.len = r.len]))
    ELSE IF StartsWith(mem, s, << 110, 117, 108, 108 >>) THEN
        LeafDone(KJSON_LEAF_NULL, mem, s + 4, leaf)
    ELSE IF StartsWith(mem, s, << 116, 114, 117, 101 >>) THEN
        LeafDone(KJSON_LEAF_BOOLEAN, mem, s + 4, [leaf EXCEPT !.b = TRUE])
    ELSE IF StartsWith(mem, s, << 102, 97, 108, 115, 101 >>) THEN
        LeafDone(KJSON_LEAF_BOOLEAN, mem, s + 5, [leaf EXCEPT !.b = FALSE])
    ELSE kjson_read_number(mem, s, leaf)

kjson_parse_leaf(mem, s, leaf, md, tb) ==
    IF mem[s] = QUOTE THEN
        Eval(kjson_read_string_utf8(mem, s, md, tb), LAMBDA r :
            IF ~r.ok THEN LeafFail(r.mem, r.s, leaf, r.over)
            ELSE LeafDone(KJSON_LEAF_STRING, r.mem, r.s,
                          [leaf EXCEPT !.begin = r.begin, !.len = r.len]))
    ELSE IF StartsWith(mem, s, << 110, 117, 108, 108 >>) THEN
        LeafDone(KJSON_LEAF_NULL, mem, s + 4, leaf)
    ELSE IF StartsWith(mem, s, << 116, 114, 117, 101 >>) THEN
        LeafDone(KJSON_LEAF_BOOLEAN, mem, s + 4, [leaf EXCEPT !.b = TRUE])
    ELSE IF StartsWith(mem, s, << 102, 97, 108, 115, 101 >>) THEN
        LeafDone(KJSON_LEAF_BOOLEAN, mem, s + 5, [leaf EXCEPT !.b = FALSE])
    ELSE IF md.read_other.null THEN kjson_read_number(mem, s, leaf)
    ELSE read_other(md.read_other, mem, s, leaf)

----------------------------------------------------------------------------
(* The callbacks of struct kjson_mid_cb as events.  A leaf event carries    *)
(* the member of the union its kind selects, a string or key the bytes      *)
(* [begin, begin+len) at the time of the call.                              *)
EvBegin(in_array) == [t |-> "begin", in_array |-> in_array]
EvEnd(in_array)   == [t |-> "end", in_array |-> in_array]
EvAEntry          == [t |-> "a_entry"]
EvOEntry(mem, leaf) ==
    [t |-> "o_entry", begin |-> leaf.begin, len |-> leaf.len,
     key |-> Slice(mem, leaf.begin, leaf.len)]
EvLeaf(r, mem, leaf) ==
    [t |-> "leaf", kind |-> r,
     b |-> IF r = KJSON_LEAF_BOOLEAN THEN leaf.b ELSE FALSE,
     ineg |-> IF r = KJSON_LEAF_NUMBER_INTEGER THEN leaf.ineg ELSE FALSE,
     imag |-> IF r = KJSON_LEAF_NUMBER_INTEGER THEN leaf.imag ELSE << >>,
     d |-> IF r = KJSON_LEAF_NUMBER_DOUBLE THEN leaf.d ELSE << >>,
     begin |-> IF r = KJSON_LEAF_STRING THEN leaf.begin ELSE 0,
     len |-> IF r = KJSON_LEAF_STRING THEN leaf.len ELSE 0,
     str |-> IF r = KJSON_LEAF_STRING THEN Slice(mem, leaf.begin, leaf.len) ELSE << >>]

(* kjson_parse_mid_rec: the result, the buffer, the cursor and the events   *)
(* emitted up to the return.                                                *)
RecRet(ok, over, mem, s, ev) ==
    [ok |-> ok, over |-> over, mem |-> mem, s |-> s, ev |-> ev]

RECURSIVE kjson_parse_mid_rec(_, _, _, _, _)
RECURSIVE rec_array_loop(_, _, _, _, _)
RECURSIVE rec_object_loop(_, _, _, _, _)

(* lines 346-357, after the return of the recursive call *)
rec_array_next(r, md, tb) ==
    IF ~r.ok THEN r
    ELSE Eval(skip_space(r.mem, r.s), LAMBDA s2 :
           IF r.mem[s2] = 44
           THEN Eval(skip_space(r.mem, s2 + 1), LAMBDA s3 :
                     rec_array_loop(r.mem, s3, r.ev, md, tb))
           ELSE IF r.mem[s2] # 93 THEN RecRet(FALSE, FALSE, r.mem, s2, r.ev)
           ELSE RecRet(TRUE, FALSE, r.mem, s2 + 1, Append(r.ev, EvEnd(TRUE))))

(* lines 344-357 *)
rec_array_loop(mem, s, ev, md, tb) ==
    Eval(kjson_parse_mid_rec(mem, s, Append(ev, EvAEntry), md, tb),
         LAMBDA r : rec_array_next(r, md, tb))

(* lines 374-385, after the return of the recursive call *)
rec_object_next(r, md, tb) ==
    IF ~r.ok THEN r
    ELSE Eval(skip_space(r.mem, r.s), LAMBDA s3 :
           IF r.mem[s3] = 44
           THEN Eval(skip_space(r.mem, s3 + 1), LAMBDA s4 :
                     rec_object_loop(r.mem, s4, r.ev, md, tb))
           ELSE IF r.mem[s3] # 125 THEN RecRet(FALSE, FALSE, r.mem, s3, r.ev)
           ELSE RecRet(TRUE, FALSE, r.mem, s3 + 1, Append(r.ev, EvEnd(FALSE))))

(* lines 364-373, after the return of kjson_read_string_utf8 *)
rec_object_key(k, ev, md, tb) ==
    IF ~k.ok THEN RecRet(FALSE, k.over, k.mem, k.s, ev)
    ELSE Eval(skip_space(k.mem, k.s), LAMBDA s2 :
           IF k.mem[s2] # 58 THEN RecRet(FALSE, FALSE, k.mem, s2, ev)
           ELSE
             Eval(<< skip_space(k.mem, s2 + 1),
                     Append(ev, EvOEntry(k.mem,
                                [NoLeaf EXCEPT !.begin = k.begin, !.len = k.len])) >>,
                  LAMBDA a :
                     Eval(kjson_parse_mid_rec(k.mem, a[1], a[2], md, tb),
                          LAMBDA r : rec_object_next(r, md, tb))))

(* lines 363-385 *)
rec_object_loop(mem, s, ev, md, tb) ==
    Eval(kjson_read_string_utf8(mem, s, md, tb),
         LAMBDA k : rec_object_key(k, ev, md, tb))

kjson_parse_mid_rec(mem, s, ev, md, tb) ==
    IF mem[s] = 91 THEN
        Eval(<< skip_space(mem, s + 1), Append(ev, EvBegin(TRUE)) >>, LAMBDA a :
            IF mem[a[1]] # 93 THEN rec_array_loop(mem, a[1], a[2], md, tb)
            ELSE RecRet(TRUE, FALSE, mem, a[1] + 1, Append(a[2], EvEnd(TRUE))))
    ELSE IF mem[s] = 123 THEN
        Eval(<< skip_space(mem, s + 1), Append(ev, EvBegin(FALSE)) >>, LAMBDA a :
            IF mem[a[1]] # 125 THEN rec_object_loop(mem, a[1], a[2], md, tb)
            ELSE RecRet(TRUE, FALSE, mem, a[1] + 1, Append(a[2], EvEnd(FALSE))))
    ELSE
        Eval(kjson_parse_leaf(mem, s, NoLeaf, md, tb), LAMBDA l :
            IF l.r < 0 THEN RecRet(FALSE, l.over, l.mem, l.s, ev)
            ELSE RecRet(TRUE, FALSE, l.mem, l.s,
                        Append(ev, EvLeaf(l.r, l.mem, l.leaf))))

----------------------------------------------------------------------------
(* kjson_parse_mid2: one iteration of the while (1) loop.  The result says  *)
(* whether the loop goes on ("loop") or the function returned ("true",      *)
(* "false"), and holds the events of the iteration.                         *)
Mid2Ret(rt, over, mem, s, depth, lhs, leaf, ev) ==
    [ret |-> rt, over |-> over, mem |-> mem, s |-> s, depth |-> depth,
     leaf_have_str |-> lhs, leaf |-> leaf, ev |-> ev]

(* lines 502-513, after the return of kjson_read_string_utf8 *)
mid2_entry_key(k, depth, leaf, ev) ==
    IF ~k.ok THEN Mid2Ret("false", k.over, k.mem, k.s, depth, FALSE, leaf, ev)
    ELSE
      Eval(<< [leaf EXCEPT !.begin = k.begin, !.len = k.len], skip_space(k.mem, k.s) >>,
           LAMBDA a :
             IF k.mem[a[2]] = 58
             THEN Mid2Ret("loop", FALSE, k.mem, skip_space(k.mem, a[2] + 1), depth,
                          FALSE, a[1], Append(ev, EvOEntry(k.mem, a[1])))
             ELSE Mid2Ret("loop", FALSE, k.mem, a[2], depth, TRUE, a[1],
                          Append(ev, EvAEntry)))

(* lines 493-514: announce the next member *)
mid2_entry_silent(mem, s, depth, known_in_arr, leaf, ev, md, tb) ==
    IF known_in_arr \/ mem[s] # QUOTE
    THEN Mid2Ret("loop", FALSE, mem, s, depth, FALSE, leaf, ev)
    ELSE Eval(kjson_read_string_utf8(mem, s, md, tb),
              LAMBDA k : mid2_entry_key(k, depth, leaf, ev))

mid2_entry(mem, s, depth, known_in_arr, leaf, ev, md, tb) ==
    IF known_in_arr \/ mem[s] # QUOTE
    THEN Mid2Ret("loop", FALSE, mem, s, depth, FALSE, leaf, Append(ev, EvAEntry))
    ELSE Eval(kjson_read_string_utf8(mem, s, md, tb),
              LAMBDA k : mid2_entry_key(k, depth, leaf, ev))

(* lines 479-491: return at top level, else skip the ',' *)
mid2_next(mem, s, depth, ao_fst, known_in_arr, leaf, ev, md, tb) ==
    IF depth = 0 THEN Mid2Ret("true", FALSE, mem, s, depth, FALSE, leaf, ev)
    ELSE IF ao_fst THEN mid2_entry(mem, s, depth, known_in_arr, leaf, ev, md, tb)
    ELSE IF mem[s] # 44 THEN Mid2Ret("false", FALSE, mem, s, depth, FALSE, leaf, ev)
    ELSE Eval(skip_space(mem, s + 1), LAMBDA s1 :
              mid2_entry(mem, s1, depth, known_in_arr, leaf, ev, md, tb))

(* the in_array argument of c->end for the closing byte c, lines 470-471 *)
mid2_end_kind_array(c) == TRUE
mid2_end_kind(c) == c = 93

(* lines 467-477: close the composites that end here *)
RECURSIVE mid2_close(_, _, _, _, _, _, _, _)
mid2_close(mem, s, depth, known_in_arr, leaf, ev, md, tb) ==
    IF depth = 0
    THEN mid2_next(mem, s, depth, FALSE, known_in_arr, leaf, ev, md, tb)
    ELSE Eval(skip_space(mem, s), LAMBDA s1 :
         IF mem[s1] = 44
         THEN mid2_next(mem, s1, depth, FALSE, known_in_arr, leaf, ev, md, tb)
         ELSE IF mem[s1] = 93 \/ mem[s1] = 125
         THEN Eval(<< s1 + 1, depth - 1, Append(ev, EvEnd(mid2_end_kind(mem[s1]))) >>,
                   LAMBDA a : mid2_close(mem, a[1], a[2], FALSE, leaf, a[3], md, tb))
         ELSE Mid2Ret("false", FALSE, mem, s1, depth, FALSE, leaf, ev))

(* lines 438-455: a composite opens at s *)
mid2_open_flat(mem, s, s1, depth, leaf, md, tb) ==
    IF mem[s1] = mem[s] + 2
    THEN Eval(skip_space(mem, s1 + 1), LAMBDA s2 :
              mid2_close(mem, s2, depth, FALSE, leaf,
                         << EvBegin(mem[s] = 91), EvEnd(mem[s] = 91) >>, md, tb))
    ELSE mid2_next(mem, s1, depth, TRUE, mem[s] = 91, leaf,
                   << EvBegin(mem[s] = 91) >>, md, tb)

mid2_open(mem, s, s1, depth, leaf, md, tb) ==
    IF mem[s1] = mem[s] + 2
    THEN Eval(skip_space(mem, s1 + 1), LAMBDA s2 :
              mid2_close(mem, s2, depth, FALSE, leaf,
                         << EvBegin(mem[s] = 91), EvEnd(mem[s] = 91) >>, md, tb))
    ELSE mid2_next(mem, s1, depth + 1, TRUE, mem[s] = 91, leaf,
                   << EvBegin(mem[s] = 91) >>, md, tb)

(* lines 423-462, then the rest of the iteration *)
kjson_parse_mid2_iter(mem, s, depth, lhs, leaf, md, tb) ==
    IF lhs THEN
        mid2_close(mem, s, depth, TRUE, leaf,
                   << EvLeaf(KJSON_LEAF_STRING, mem, leaf) >>, md, tb)
    ELSE IF mem[s] = 91 \/ mem[s] = 123 THEN
        Eval(skip_space(mem, s + 1), LAMBDA s1 : mid2_open(mem, s, s1, depth, leaf, md, tb))
    ELSE
        Eval(kjson_parse_leaf(mem, s, leaf, md, tb), LAMBDA l :
            IF l.r < 0
            THEN Mid2Ret("false", l.over, l.mem, l.s, depth, FALSE, l.leaf, << >>)
            ELSE mid2_close(l.mem, l.s, depth, FALSE, l.leaf,
                            << EvLeaf(l.r, l.mem, l.leaf) >>, md, tb))

----------------------------------------------------------------------------
(* The tree builder (struct high_cb and the high_* callbacks).              *)
(*                                                                          *)
(* The heap is a sequence of buffers; a buffer's id is its index, 0 is the  *)
(* null pointer.  A data buffer holds the values and keys stored in it by   *)
(* byte offset; the element stack's buffer holds its elements in cb.stack.  *)
(* A pointer to a value is a buffer id and a byte offset; buffer -1 is the  *)
(* caller's struct kjson_value, the v of kjson_parse.  An access the C      *)
(* standard leaves undefined is recorded in cb.bad and ends the run: no     *)
(* outcome is attributed to the call after it.                              *)
KJSON_VALUE_NULL           == 0
KJSON_VALUE_BOOLEAN        == 1
KJSON_VALUE_NUMBER_INTEGER == 2
KJSON_VALUE_NUMBER_DOUBLE  == 3
KJSON_VALUE_STRING         == 4
KJSON_VALUE_ARRAY          == 5
KJSON_VALUE_OBJECT         == 6

(* sizeof of the structs where a long has WordBytes bytes (ILP32, i386)     *)
SizeofString == 8
SizeofValue  == 12
SizeofEntry  == SizeofString + SizeofValue
SizeofElem   == 16

NullPtr == [buf |-> 0, off |-> 0]
RootPtr == [buf |-> -1, off |-> 0]

(* a struct kjson_value; type -1 stands for one never written *)
Value(type, b, ineg, imag, d, begin, len, data, n) ==
    [type |-> type, b |-> b, ineg |-> ineg, imag |-> imag, d |-> d,
     begin |-> begin, len |-> len, data |-> data, n |-> n]
Unwritten == Value(-1, FALSE, FALSE, << >>, << >>, 0, 0, 0, 0)
Composite(type, data, n) ==
    Value(type, FALSE, FALSE, << >>, << >>, 0, 0, data, n)

EmptyFun == [x \in {} |-> 0]
Buffer(bytes) == [live |-> TRUE, bytes |-> bytes, vals |-> EmptyFun, keys |-> EmptyFun]

malloc(heap, bytes) == [heap |-> Append(heap, Buffer(bytes)), ptr |-> Len(heap) + 1]

(* realloc: a null pointer allocates; otherwise the contents move to a new  *)
(* buffer and the old one is released.                                      *)
realloc(heap, ptr, bytes) ==
    IF ptr = 0 THEN malloc(heap, bytes)
    ELSE [heap |-> Append([heap EXCEPT ![ptr].live = FALSE],
                          [heap[ptr] EXCEPT !.bytes = bytes]),
          ptr |-> Len(heap) + 1]

(* struct elem and ELEM_INIT *)
Elem(v, data, n, cap) == [v |-> v, data |-> data, n |-> n, cap |-> cap]
ELEM_INIT == Elem(NullPtr, 0, 0, 0)

Flag(cb, what) == [cb EXCEPT !.bad = @ \cup { what }]

top(cb) == cb.stack[cb.stack_sz]

(* bytes [a, a+la) and [b, b+lb) overlap *)
Overlap(a, la, b, lb) == a < b + lb /\ b < a + la

(* what is left of the cells of a buffer after a write of len bytes at off: *)
(* a cell the write covers in part holds no value any more                  *)
Keep(cells, size, off, len) ==
    LET D == { o \in DOMAIN cells : ~Overlap(o, size, off, len) }
    IN  [o \in D |-> cells[o]]
PutCell(cells, off, x) ==
    [o \in DOMAIN cells \cup { off } |-> IF o = off THEN x ELSE cells[o]]

(* *v = val through a value pointer *)
store(cb, v, val) ==
    IF v = RootPtr THEN [cb EXCEPT !.root = val]
    ELSE IF v.buf = 0 THEN Flag(cb, "null_deref")
    ELSE IF ~cb.heap[v.buf].live THEN Flag(cb, "use_after_free")
    ELSE IF v.off + SizeofValue > cb.heap[v.buf].bytes THEN Flag(cb, "heap_overflow")
    ELSE [cb EXCEPT !.heap[v.buf].vals =
                        PutCell(Keep(@, SizeofValue, v.off, SizeofValue), v.off, val),
                    !.heap[v.buf].keys = Keep(@, SizeofString, v.off, SizeofValue)]

(* oe->key = *key at byte offset off of buffer data *)
store_key(cb, data, off, key) ==
    IF off + SizeofString > cb.heap[data].bytes THEN Flag(cb, "heap_overflow")
    ELSE [cb EXCEPT !.heap[data].keys =
                        PutCell(Keep(@, SizeofString, off, SizeofString), off, key),
                    !.heap[data].vals = Keep(@, SizeofValue, off, SizeofString)]

ValueOfLeaf(e) ==
    Value(e.kind, e.b, e.ineg, e.imag, e.d, e.begin, e.len, 0, 0)

(* cb->store_leaf(v, type, l): NULL under kjson_parse; a store_leaf of the  *)
(* caller records the kind as the type of the value                         *)
store_leaf(cb, e) ==
    IF cb.store_leaf.null THEN Flag(cb, "null_call")
    ELSE store(cb, top(cb).v, ValueOfLeaf(e))

high_leaf(cb, e) ==
    IF e.kind \in KJSON_LEAF_NULL..KJSON_LEAF_STRING
    THEN store(cb, top(cb).v, ValueOfLeaf(e))
    ELSE store_leaf(cb, e)

(* ensure_one_left: the new capacity, pointer and heap *)
ensure_one_left(heap, n, cap, data, elem_sz) ==
    IF n = cap
    THEN LET cap2 == 2 * (IF cap # 0 THEN cap ELSE 1)
             r    == realloc(heap, data, cap2 * elem_sz)
         IN  [heap |-> r.heap, cap |-> cap2, data |-> r.ptr]
    ELSE [heap |-> heap, cap |-> cap, data |-> data]

high_begin_no_push(cb) ==
    LET r == ensure_one_left(cb.heap, cb.stack_sz, cb.stack_cap, cb.stack_buf, SizeofElem)
    IN  [cb EXCEPT !.heap = r.heap, !.stack_cap = r.cap, !.stack_buf = r.data,
                   !.stack[cb.stack_sz] = ELEM_INIT]
high_begin(cb) ==
    LET r == ensure_one_left(cb.heap, cb.stack_sz, cb.stack_cap, cb.stack_buf, SizeofElem)
    IN  [cb EXCEPT !.heap = r.heap, !.stack_cap = r.cap, !.stack_buf = r.data,
                   !.stack_sz = @ + 1, !.stack = Append(@, ELEM_INIT)]

high_a_entry_no_count(cb) ==
    LET e == top(cb)
        r == ensure_one_left(cb.heap, e.n, e.cap, e.data, SizeofValue)
    IN  [cb EXCEPT !.heap = r.heap,
                   !.stack[cb.stack_sz] =
                       Elem([buf |-> r.data, off |-> e.n * SizeofValue],
                            r.data, e.n, r.cap)]
high_a_entry(cb) ==
    LET e == top(cb)
        r == ensure_one_left(cb.heap, e.n, e.cap, e.data, SizeofValue)
    IN  [cb EXCEPT !.heap = r.heap,
                   !.stack[cb.stack_sz] =
                       Elem([buf |-> r.data, off |-> e.n * SizeofValue],
                            r.data, e.n + 1, r.cap)]

high_o_entry(cb, key) ==
    LET e   == top(cb)
        r   == ensure_one_left(cb.heap, e.n, e.cap, e.data, SizeofEntry)
        oe  == e.n * SizeofEntry
        cb2 == [cb EXCEPT !.heap = r.heap,
                          !.stack[cb.stack_sz] =
                              Elem([buf |-> r.data, off |-> oe + SizeofString],
                                   r.data, e.n + 1, r.cap)]
    IN  store_key(cb2, r.data, oe, key)

high_end_no_pop(cb, in_a) ==
    store(cb, cb.stack[cb.stack_sz - 1].v,
          Composite(IF in_a THEN KJSON_VALUE_ARRAY ELSE KJSON_VALUE_OBJECT,
                    top(cb).data, top(cb).n))
high_end(cb, in_a) ==
    LET e == top(cb)
        cb2 == [cb EXCEPT !.stack_sz = @ - 1,
                          !.stack = SubSeq(@, 1, cb.stack_sz - 1)]
    IN  IF cb2.stack_sz = 0 THEN Flag(cb2, "stack_underflow")
        ELSE store(cb2, top(cb2).v,
                   Composite(IF in_a THEN KJSON_VALUE_ARRAY ELSE KJSON_VALUE_OBJECT,
                             e.data, e.n))

(* one callback of the table kjson_parse2 installs *)
Callback(cb, e) ==
    IF cb.bad # {} THEN cb
    ELSE CASE e.t = "leaf"    -> high_leaf(cb, e)
           [] e.t = "begin"   -> high_begin(cb)
           [] e.t = "a_entry" -> high_a_entry(cb)
           [] e.t = "o_entry" -> high_o_entry(cb, [begin |-> e.begin, len |-> e.len])
           [] e.t = "end"     -> high_end(cb, e.in_array)

RECURSIVE Callbacks(_, _)
Callbacks(cb, ev) ==
    IF ev = << >> THEN cb
    ELSE Eval(Callback(cb, Head(ev)), LAMBDA c : Callbacks(c, Tail(ev)))

(* kjson_parse2 up to the call of kjson_parse_mid *)
high_cb_init ==
    LET m == malloc(<< >>, SizeofElem) IN
    [stack |-> << Elem(RootPtr, 0, 0, 0) >>, stack_sz |-> 1, stack_cap |-> 1,
     stack_buf |-> m.ptr, heap |-> m.heap, root |-> Unwritten, bad |-> {},
     store_leaf |-> [null |-> TRUE]]

(* free() *)
free(h, ptr) ==
    IF ptr = 0 THEN h
    ELSE IF ~h.heap[ptr].live THEN [h EXCEPT !.bad = @ \cup { "double_free" }]
    ELSE [h EXCEPT !.heap[ptr].live = FALSE, !.freed = Append(@, ptr)]

(* kjson_value_fini on the value val; h holds the heap, the pointers passed *)
(* to free so far and the undefined accesses.                               *)
RECURSIVE kjson_value_fini(_, _)
RECURSIVE fini_children(_, _, _, _, _, _)
(* free(v->a.data), free(v->o.data) after the loop over the children *)
fini_free_leak(h, data) == h
fini_free(h, data) == IF h.bad # {} THEN h ELSE free(h, data)

fini_children(h, data, i, n, stride, first) ==
    IF i = n \/ h.bad # {} THEN h
    ELSE LET off == i * stride + first IN
         IF data = 0 THEN [h EXCEPT !.bad = @ \cup { "null_deref" }]
         ELSE IF ~h.heap[data].live THEN [h EXCEPT !.bad = @ \cup { "use_after_free" }]
         ELSE IF off + SizeofValue > h.heap[data].bytes
              THEN [h EXCEPT !.bad = @ \cup { "heap_overflow" }]
         ELSE IF off \notin DOMAIN h.heap[data].vals
              THEN [h EXCEPT !.bad = @ \cup { "indeterminate_read" }]
         ELSE Eval(kjson_value_fini(h, h.heap[data].vals[off]),
                   LAMBDA h2 : fini_children(h2, data, i + 1, n, stride, first))

kjson_value_fini(h, val) ==
    IF val.type = -1 THEN [h EXCEPT !.bad = @ \cup { "indeterminate_read" }]
    ELSE IF val.type = KJSON_VALUE_ARRAY THEN
        Eval(fini_children(h, val.data, 0, val.n, SizeofValue, 0),
             LAMBDA h2 : fini_free(h2, val.data))
    ELSE IF val.type = KJSON_VALUE_OBJECT THEN
        Eval(fini_children(h, val.data, 0, val.n, SizeofEntry, SizeofString),
             LAMBDA h2 : fini_free(h2, val.data))
    ELSE h

----------------------------------------------------------------------------
(* Inputs of the string decoder: an opening quote, a few pieces, an         *)
(* optional closing quote and the terminator.  Sequences of up to MaxPieces *)
(* raw pieces and of up to MaxEscPieces escape pieces are drawn.            *)
MaxPieces == 3
MaxEscPieces == 2

RECURSIVE Concat(_)
Concat(ps) == IF ps = << >> THEN << >> ELSE Head(ps) \o Concat(Tail(ps))

PieceSeqs(P, n) == UNION { [1..k -> P] : k \in 0..n }

(* Build and alignment of the scan: the byte-at-a-time build, or the        *)
(* word-at-a-time build with the buffer at each alignment.                  *)
ScanModes ==
    { [word |-> FALSE, align |-> 0, read_other |-> NoReadOther] } \cup
    { [word |-> TRUE, align |-> a, read_other |-> NoReadOther] : a \in 0..(WordBytes - 1) }

(* What an aligned word read may find after the terminator.                 *)
TailBytes == { 0, 34, 35 }

(* "\uXXXX" with the four given hex digits *)
U4(a, b, c, d) == << 92, 117, a, b, c, d >>

RawPieces ==
    { << 34 >>, << 92 >>, << 110 >>, << 31 >>, << 32 >>,
      << 127 >>, << 195 >>, << 169 >>,
      U4(68, 56, 51, 52) \o U4(68, 68, 49, 69) }         \* \uD834\uDD1E

EscPieces ==
    { << 92, 34, 92, 92 >>, << 92, 47, 92, 98 >>,        \* \"\\ \/\b
      << 92, 102, 92, 110 >>, << 92, 114, 92, 116 >>,    \* \f\n \r\t
      << 92, 120 >>,                                     \* \x
      U4(48, 48, 55, 70),  U4(48, 48, 56, 48),           \* \u007F \u0080
      U4(48, 55, 70, 70),  U4(48, 56, 48, 48),           \* \u07FF \u0800
      U4(50, 48, 97, 67),                                \* \u20aC
      U4(68, 55, 70, 70),  U4(69, 48, 48, 48),           \* \uD7FF \uE000
      U4(68, 56, 48, 48),  U4(68, 66, 70, 70),           \* \uD800 \uDBFF
      U4(68, 67, 48, 48),  U4(68, 70, 70, 70),           \* \uDC00 \uDFFF
      << 92, 117, 48, 48 >> }                            \* \u00 cut short

StrTokens(P, n) ==
    { << QUOTE >> \o Concat(ps) \o (IF closed THEN << QUOTE >> ELSE << >>) \o << NUL >> :
        ps \in PieceSeqs(P, n), closed \in BOOLEAN }

StrInputs == StrTokens(RawPieces, MaxPieces) \cup StrTokens(EscPieces, MaxEscPieces)

Mid2Init == [depth |-> 0, leaf_have_str |-> FALSE, leaf |-> NoLeaf]
NoRec == [done |-> FALSE, ok |-> FALSE, over |-> FALSE, s |-> 0, ev |-> << >>]
NoFin == [heap |-> << >>, freed |-> << >>, bad |-> {}]
NoResult == [ok |-> FALSE, over |-> FALSE, mem |-> << >>, s |-> 0, begin |-> 0, len |-> 0]
NoThrown == [code |-> 0, what |-> [null |-> TRUE, str |-> ""], over |-> FALSE]
NoCxx == [v |-> [type |-> 0, n |-> 0, keys |-> << >>, num_ok |-> FALSE],
          req |-> [op |-> "none", sv |-> "", i |-> 0],
          ret |-> [has |-> FALSE, err |-> 0, val |-> 0],
          thrown |-> NoThrown]
NoNum == [number |-> [r |-> -1, s |-> 0, ineg |-> FALSE, imag |-> << >>, d |-> << >>],
          integer |-> [ok |-> FALSE, s |-> 0, v |-> [neg |-> FALSE, mag |-> << >>]]]

InitStr ==
    /\ src \in StrInputs
    /\ buf = src
    /\ mode \in ScanModes
    /\ pc = "string"
    /\ sres = NoResult
    /\ p = [s |-> 1]
    /\ mid2 = Mid2Init
    /\ trace = << >>
    /\ rec = NoRec
    /\ high_cb = high_cb_init
    /\ result = "none"
    /\ fin = NoFin
    /\ num = NoNum
    /\ cxx = NoCxx

(* One call of kjson_read_string_utf8 with the cursor p.s at the opening    *)
(* quote of the token.                                                      *)
ReadString ==
    /\ pc = "string"
    /\ \E tb \in (IF mode.word THEN TailBytes ELSE { NUL }) :
         /\ sres' = kjson_read_string_utf8(buf, p.s, mode, tb)
         /\ buf' = sres'.mem
    /\ pc' = "string_done"
    /\ UNCHANGED << src, mode, cxx >>
    /\ UNCHANGED parse_vars

NextStr == ReadString
SpecStr == InitStr /\ [][NextStr]_vars

----------------------------------------------------------------------------
(* String tokens long enough for the word-at-a-time search to pass whole    *)
(* words: at most MaxScanPieces pieces, one of them four bytes that differ  *)
(* from '"', '\' and the control bytes in one bit or lie above 0x7E.        *)
MaxScanPieces == 3

ScanPieces ==
    { << 35, 93, 127, 255 >>, << 33 >>, << 128 >>, << 31 >>, << 92, 110 >> }

ScanInputs == StrTokens(ScanPieces, MaxScanPieces)

InitScan ==
    /\ src \in ScanInputs
    /\ buf = src
    /\ mode \in ScanModes
    /\ pc = "string"
    /\ sres = NoResult
    /\ p = [s |-> 1]
    /\ mid2 = Mid2Init
    /\ trace = << >>
    /\ rec = NoRec
    /\ high_cb = high_cb_init
    /\ result = "none"
    /\ fin = NoFin
    /\ num = NoNum
    /\ cxx = NoCxx

SpecScan == InitScan /\ [][NextStr]_vars

----------------------------------------------------------------------------
(* String tokens inside a document: bytes before the opening quote, a body  *)
(* of at most MaxFramePieces pieces, and bytes after the closing quote.     *)
(* Tokens made of escapes of every decoded length, for the rewrite phase *)
MaxRewritePieces == 3

RewritePieces ==
    { << 110 >>,                                         \* n
      << 92, 110 >>,                                     \* \n
      << 92, 120 >>,                                     \* \x
      U4(48, 48, 55, 70),                                \* \u007F
      U4(48, 55, 70, 70),                                \* \u07FF
      U4(48, 56, 48, 48),                                \* \u0800
      U4(68, 56, 51, 52) \o U4(68, 68, 49, 69) }         \* \uD834\uDD1E

InitRewrite ==
    /\ src \in StrTokens(RewritePieces, MaxRewritePieces)
    /\ buf = src
    /\ mode \in ScanModes
    /\ pc = "string"
    /\ sres = NoResult
    /\ p = [s |-> 1]
    /\ mid2 = Mid2Init
    /\ trace = << >>
    /\ rec = NoRec
    /\ high_cb = high_cb_init
    /\ result = "none"
    /\ fin = NoFin
    /\ num = NoNum
    /\ cxx = NoCxx

SpecRewrite == InitRewrite /\ [][NextStr]_vars

MaxFramePieces == 2

FramePieces ==
    { << 110 >>, << 31 >>, << 92, 110 >>, << 92, 120 >>, U4(50, 48, 97, 67),
      U4(68, 56, 51, 52) \o U4(68, 68, 49, 69) }

FrameBefore == { << >>, << 123 >>, << 91, 32 >> }
FrameAfter == { << >>, << 58, 49, 125 >>, << 44, 34, 98, 34, 93 >> }

FrameInputs ==
    { [pre |-> Len(b), doc |-> b \o tok \o a \o << NUL >>] :
        b \in FrameBefore, a \in FrameAfter,
        tok \in { << QUOTE >> \o Concat(ps) \o (IF closed THEN << QUOTE >> ELSE << >>) :
                    ps \in PieceSeqs(FramePieces, MaxFramePieces), closed \in BOOLEAN } }

InitFrame ==
    /\ \E in \in FrameInputs : src = in.doc /\ p = [s |-> in.pre + 1]
    /\ buf = src
    /\ mode \in ScanModes
    /\ pc = "string"
    /\ sres = NoResult
    /\ mid2 = Mid2Init
    /\ trace = << >>
    /\ rec = NoRec
    /\ high_cb = high_cb_init
    /\ result = "none"
    /\ fin = NoFin
    /\ num = NoNum
    /\ cxx = NoCxx

SpecFrame == InitFrame /\ [][NextStr]_vars

----------------------------------------------------------------------------
(* Number texts: sequences of at most MaxNumPieces pieces, the boundary     *)
(* numerals of intmax_t and uintmax_t among them, NUL-terminated.           *)
MaxNumPieces == 3

Ascii(ds) == [i \in 1..Len(ds) |-> ds[i] + 48]

INTMAX_MAX_P2 == << 9,2,2,3,3,7,2,0,3,6,8,5,4,7,7,5,8,0,9 >>

NumPieces ==
    { << 45 >>, << 43 >>, << 32 >>, << 11 >>, << 48 >>, << 55 >>, << 49, 50 >>,
      << 46 >>, << 101 >>, << 69 >>, << 120 >>,
      Ascii(INTMAX_MAX), Ascii(INTMAX_MAX_P1), Ascii(INTMAX_MAX_P2),
      Ascii(UINTMAX_MAX), Ascii(TWO64) }

NumInputs == { Concat(q) \o << NUL >> : q \in PieceSeqs(NumPieces, MaxNumPieces) }

InitNum ==
    /\ src \in NumInputs
    /\ buf = src
    /\ mode = [word |-> TRUE, align |-> 0, read_other |-> NoReadOther]
    /\ pc = "number"
    /\ sres = NoResult
    /\ p = [s |-> 1]
    /\ mid2 = Mid2Init
    /\ trace = << >>
    /\ rec = NoRec
    /\ high_cb = high_cb_init
    /\ result = "none"
    /\ fin = NoFin
    /\ num = NoNum
    /\ cxx = NoCxx

(* kjson_read_number with the cursor at the first byte of the text *)
ReadNumber ==
    /\ pc = "number"
    /\ \E l \in { kjson_read_number(src, 1, NoLeaf) } :
         num' = [num EXCEPT !.number =
                    [r |-> l.r, s |-> l.s, ineg |-> l.leaf.ineg,
                     imag |-> l.leaf.imag, d |-> l.leaf.d]]
    /\ pc' = "integer"
    /\ UNCHANGED << src, buf, mode, sres, p, mid2, trace, rec, high_cb, result, fin, cxx >>

(* kjson_read_integer with the cursor at the first byte of the same text *)
ReadInteger ==
    /\ pc = "integer"
    /\ \E i \in { kjson_read_integer(src, 1) } : num' = [num EXCEPT !.integer = i]
    /\ pc' = "read"
    /\ UNCHANGED << src, buf, mode, sres, p, mid2, trace, rec, high_cb, result, fin, cxx >>

NextNum == ReadNumber \/ ReadInteger
SpecNum == InitNum /\ [][NextNum]_vars

----------------------------------------------------------------------------
(* Documents: a first piece that starts a value, then up to MaxTokens       *)
(* pieces in any order, then the terminator.                                *)
MaxTokens == 4

Heads ==
    { << 91 >>,                          \* [
      << 123 >>,                         \* {
      << 123, 34, 120, 34, 58 >>,        \* {"x":
      << 49 >>,                          \* 1
      << 34, 97, 34 >> }                 \* "a"

DocPieces ==
    { << 91 >>,                          \* [
      << 49 >>,                          \* 1
      << 34, 97, 34 >>,                  \* "a"
      << 93 >>,                          \* ]
      << 32, 125 >>,                     \* space }
      << 44, 49 >>,                      \* ,1
      << 44, 34, 120, 34, 32, 58 >>,     \* ,"x" :
      << 44, 32 >> }                     \* , space

Documents ==
    { h \o Concat(q) \o << NUL >> :
        h \in Heads, q \in UNION { PieceSeqs(DocPieces, n) : n \in 0..MaxTokens } }

(* The documents are parsed by the word build from an aligned buffer whose   *)
(* bytes after the terminator are zero; SpecStr varies build, alignment and *)
(* those bytes for single string tokens.                                    *)
ParseModes == { [word |-> TRUE, align |-> 0, read_other |-> NoReadOther] }

Init ==
    /\ src \in Documents
    /\ buf = src
    /\ mode \in ParseModes
    /\ pc = "rec"
    /\ sres = NoResult
    /\ p = [s |-> 1]
    /\ mid2 = Mid2Init
    /\ trace = << >>
    /\ rec = NoRec
    /\ high_cb = high_cb_init
    /\ result = "none"
    /\ fin = NoFin
    /\ num = NoNum
    /\ cxx = NoCxx

(* kjson_parse_mid_rec with recording callbacks on a copy of the document   *)
ParseMidRec ==
    /\ pc = "rec"
    /\ \E r \in { kjson_parse_mid_rec(src, 1, << >>, mode, NUL) } :
         rec' = [done |-> TRUE, ok |-> r.ok, over |-> r.over, s |-> r.s, ev |-> r.ev]
    /\ pc' = "mid2"
    /\ UNCHANGED << src, buf, mode, sres, p, mid2, trace, high_cb, result, fin, num, cxx >>

(* kjson_parse2 after the return of kjson_parse_mid: lines 655-657 *)
kjson_parse2_return(c, r) ==
    IF r /\ c.stack_sz # 1 THEN Flag(c, "assert")
    ELSE [c EXCEPT !.heap[c.stack_buf].live = FALSE]

(* kjson_parse: one iteration of the loop of kjson_parse_mid2 with the      *)
(* callbacks of the tree builder, and the return of kjson_parse2 when the   *)
(* loop returns.                                                            *)
ParseMid2 ==
    /\ pc = "mid2"
    /\ \E r \in { kjson_parse_mid2_iter(buf, p.s, mid2.depth, mid2.leaf_have_str,
                                        mid2.leaf, mode, NUL) } :
       \E c1 \in { Callbacks(high_cb, r.ev) } :
       \E c2 \in { IF r.ret = "loop" \/ r.over \/ c1.bad # {} THEN c1
                   ELSE kjson_parse2_return(c1, r.ret = "true") } :
         LET ub == r.over \/ c2.bad # {}
         IN  /\ buf' = r.mem
             /\ p' = [s |-> r.s]
             /\ mid2' = [depth |-> r.depth, leaf_have_str |-> r.leaf_have_str,
                          leaf |-> r.leaf]
             /\ trace' = trace \o r.ev
             /\ high_cb' = c2
             /\ result' = IF ub \/ r.ret = "loop" THEN "none" ELSE r.ret
             /\ pc' = IF ub THEN "undefined"
                      ELSE IF r.ret = "loop" THEN "mid2" ELSE "parsed"
    /\ UNCHANGED << src, mode, sres, rec, fin, num, cxx >>

(* the caller's kjson_value_fini(&v) after kjson_parse has returned *)
ValueFini ==
    /\ pc = "parsed"
    /\ \E h \in { kjson_value_fini([heap |-> high_cb.heap, freed |-> << >>, bad |-> {}],
                                     high_cb.root) } :
         /\ fin' = h
         /\ pc' = IF h.bad # {} THEN "undefined" ELSE "finalised"
    /\ UNCHANGED << src, buf, mode, sres, p, mid2, trace, rec, high_cb, result, num, cxx >>

Next == ParseMidRec \/ ParseMid2 \/ ValueFini
Spec == Init /\ [][Next]_vars

----------------------------------------------------------------------------
(* Documents with a gap of at most MaxGap bytes in front of a value or      *)
(* between two tokens of it; the gap bytes are the six of isspace(3).       *)
MaxGap == 2

GapBytes == { 32, 9, 10, 13, 11, 12 }
Gaps == UNION { [1..k -> GapBytes] : k \in 0..MaxGap }

WsValues ==
    { << 91, 49, 93 >>, << 123, 34, 120, 34, 58, 49, 125 >>, << 34, 97, 34 >>,
      << 110, 117, 108, 108 >>, << 49 >>, << 91, 93 >> }

WsSplits ==
    { << << 91 >>, << 49, 93 >> >>,
      << << 91, 49 >>, << 93 >> >>,
      << << 91, 49, 44 >>, << 49, 93 >> >>,
      << << 91, 49 >>, << 44, 49, 93 >> >>,
      << << 91 >>, << 34, 97, 34, 93 >> >>,
      << << 91 >>, << 116, 114, 117, 101, 93 >> >>,
      << << 91 >>, << 93 >> >>,
      << << 123 >>, << 34, 120, 34, 58, 49, 125 >> >>,
      << << 123, 34, 120, 34 >>, << 58, 49, 125 >> >>,
      << << 123, 34, 120, 34, 58 >>, << 49, 125 >> >>,
      << << 123, 34, 120, 34, 58 >>, << 34, 97, 34, 125 >> >> }

WsDocuments ==
    { g \o v \o << NUL >> : g \in Gaps, v \in WsValues }
    \cup { h[1] \o g \o h[2] \o << NUL >> : g \in Gaps, h \in WsSplits }

InitWs ==
    /\ src \in WsDocuments
    /\ buf = src
    /\ mode \in ParseModes
    /\ pc = "rec"
    /\ sres = NoResult
    /\ p = [s |-> 1]
    /\ mid2 = Mid2Init
    /\ trace = << >>
    /\ rec = NoRec
    /\ high_cb = high_cb_init
    /\ result = "none"
    /\ fin = NoFin
    /\ num = NoNum
    /\ cxx = NoCxx

SpecWs == InitWs /\ [][Next]_vars

----------------------------------------------------------------------------
(* kjson_parse2 with a read_other and a store_leaf of the caller, on        *)
(* documents of at most MaxOtherTokens pieces after a head.                 *)
MaxOtherTokens == 3

OtherHeads == { << 91 >>, << 49 >>, << 120 >>, << 110, 117, 108, 108 >> }

OtherPieces ==
    { << 49 >>, << 120 >>, << 34, 97, 34 >>, << 93 >>, << 91 >>,
      << 44, 49 >>, << 44, 120 >>, << 44, 116, 114, 117, 101 >> }

OtherDocuments ==
    { h \o Concat(q) \o << NUL >> :
        h \in OtherHeads, q \in PieceSeqs(OtherPieces, MaxOtherTokens) }

OtherReaders ==
    { [null |-> FALSE, accept |-> { 49 }, ret |-> KJSON_LEAF_NUMBER_INTEGER],
      [null |-> FALSE, accept |-> { 49, 120 }, ret |-> 7],
      [null |-> FALSE, accept |-> { 49 }, ret |-> 7],
      [null |-> FALSE, accept |-> {}, ret |-> 7] }

InitOther ==
    /\ src \in OtherDocuments
    /\ buf = src
    /\ mode \in { [word |-> TRUE, align |-> 0, read_other |-> f] : f \in OtherReaders }
    /\ pc = "rec"
    /\ sres = NoResult
    /\ p = [s |-> 1]
    /\ mid2 = Mid2Init
    /\ trace = << >>
    /\ rec = NoRec
    /\ high_cb = [high_cb_init EXCEPT !.store_leaf = [null |-> FALSE]]
    /\ result = "none"
    /\ fin = NoFin
    /\ num = NoNum
    /\ cxx = NoCxx

SpecOther == InitOther /\ [][Next]_vars

----------------------------------------------------------------------------
(* Reference reading of a string token, written from the JSON grammar and   *)
(* the UTF-8 encoding rules with plain arithmetic.                          *)
SafeAt(tok, i) == IF i >= 1 /\ i <= Len(tok) THEN tok[i] ELSE NUL

HexDigit(c) ==
    IF 48 <= c /\ c <= 57 THEN c - 48
    ELSE IF 65 <= c /\ c <= 70 THEN c - 55
    ELSE IF 97 <= c /\ c <= 102 THEN c - 87
    ELSE -1

IsHex4(tok, i) == \A k \in 0..3 : HexDigit(SafeAt(tok, i + k)) >= 0

HexVal4(tok, i) ==
    4096 * HexDigit(tok[i]) + 256 * HexDigit(tok[i + 1])
        + 16 * HexDigit(tok[i + 2]) + HexDigit(tok[i + 3])

Utf8Of(cp) ==
    IF cp < 128 THEN << cp >>
    ELSE IF cp < 2048 THEN << 192 + cp \div 64, 128 + (cp % 64) >>
    ELSE IF cp < 65536 THEN
        << 224 + cp \div 4096, 128 + ((cp \div 64) % 64), 128 + (cp % 64) >>
    ELSE << 240 + cp \div 262144, 128 + ((cp \div 4096) % 64),
            128 + ((cp \div 64) % 64), 128 + (cp % 64) >>

IsHighSurrogate(u) == 55296 <= u /\ u <= 56319
IsLowSurrogate(u)  == 56320 <= u /\ u <= 57343

SimpleEscape(c) ==
    CASE c = 34 -> 34 [] c = 92 -> 92 [] c = 47 -> 47 [] c = 98 -> 8
      [] c = 102 -> 12 [] c = 110 -> 10 [] c = 114 -> 13 [] c = 116 -> 9
      [] OTHER -> -1

(* The \u escape (or surrogate pair) whose backslash is at i: its code      *)
(* point and the number of source bytes, or what is wrong with it.          *)
RefUnicode(tok, i) ==
    IF ~IsHex4(tok, i + 2) THEN [what |-> "malformed"]
    ELSE LET u == HexVal4(tok, i + 2) IN
         IF IsLowSurrogate(u) THEN [what |-> "lone_low"]
         ELSE IF ~IsHighSurrogate(u) THEN [what |-> "ok", cp |-> u, n |-> 6]
         ELSE IF SafeAt(tok, i + 6) = BSLASH /\ SafeAt(tok, i + 7) = 117
                 /\ IsHex4(tok, i + 8) /\ IsLowSurrogate(HexVal4(tok, i + 8))
              THEN [what |-> "ok",
                    cp |-> ((u % 1024) * 1024 + (HexVal4(tok, i + 8) % 1024)) + 65536,
                    n |-> 12]
              ELSE [what |-> "lone_high"]

(* Reads the token body from index i on: what |-> "ok" with the decoded     *)
(* bytes, the index of the closing quote and whether an escape occurred,    *)
(* or the first thing that is wrong.                                        *)
RECURSIVE RefString(_, _, _, _)
RefString(tok, i, out, esc) ==
    LET c == SafeAt(tok, i) IN
    IF c = QUOTE THEN [what |-> "ok", bytes |-> out, close |-> i, esc |-> esc]
    ELSE IF c <= 31 THEN [what |-> "control", at |-> i]
    ELSE IF c # BSLASH THEN RefString(tok, i + 1, Append(out, c), esc)
    ELSE LET sel == SafeAt(tok, i + 1) IN
         IF sel = 117 THEN
             LET r == RefUnicode(tok, i) IN
             IF r.what = "ok" THEN RefString(tok, i + r.n, out \o Utf8Of(r.cp), TRUE)
             ELSE [what |-> r.what, at |-> i]
         ELSE IF SimpleEscape(sel) >= 0
             THEN RefString(tok, i + 2, Append(out, SimpleEscape(sel)), TRUE)
         ELSE IF sel = NUL /\ i + 1 >= Len(tok) THEN [what |-> "backslash_nul", at |-> i]
         ELSE [what |-> "malformed", at |-> i]

RefToken(tok) == RefString(tok, 2, << >>, FALSE)

StringReturned == pc = "string_done" /\ ~sres.over
StringAccepted == StringReturned /\ sres.ok

(* RFC 3629: bs is a sequence of well-formed UTF-8 byte sequences.          *)
IsCont(b) == 128 <= b /\ b <= 191

RECURSIVE IsUtf8(_)
IsUtf8(bs) ==
    IF bs = << >> THEN TRUE
    ELSE LET b0 == bs[1]
             n  == Len(bs)
             b1 == IF n >= 2 THEN bs[2] ELSE -1
             b2 == IF n >= 3 THEN bs[3] ELSE -1
             b3 == IF n >= 4 THEN bs[4] ELSE -1
         IN
         IF b0 < 128 THEN IsUtf8(SubSeq(bs, 2, n))
         ELSE IF 194 <= b0 /\ b0 <= 223
             THEN IsCont(b1) /\ IsUtf8(SubSeq(bs, 3, n))
         ELSE IF b0 = 224
             THEN 160 <= b1 /\ b1 <= 191 /\ IsCont(b2) /\ IsUtf8(SubSeq(bs, 4, n))
         ELSE IF b0 = 237
             THEN 128 <= b1 /\ b1 <= 159 /\ IsCont(b2) /\ IsUtf8(SubSeq(bs, 4, n))
         ELSE IF 225 <= b0 /\ b0 <= 239
             THEN IsCont(b1) /\ IsCont(b2) /\ IsUtf8(SubSeq(bs, 4, n))
         ELSE IF b0 = 240
             THEN 144 <= b1 /\ b1 <= 191 /\ IsCont(b2) /\ IsCont(b3)
                  /\ IsUtf8(SubSeq(bs, 5, n))
         ELSE IF b0 = 244
             THEN 128 <= b1 /\ b1 <= 143 /\ IsCont(b2) /\ IsCont(b3)
                  /\ IsUtf8(SubSeq(bs, 5, n))
         ELSE IF 241 <= b0 /\ b0 <= 243
             THEN IsCont(b1) /\ IsCont(b2) /\ IsCont(b3) /\ IsUtf8(SubSeq(bs, 5, n))
         ELSE FALSE

(* The source bytes between the quotes of an accepted token. *)
SourceBody == SubSeq(src, 2, RefToken(src).close - 1)
Decoded == Slice(buf, sres.begin, sres.len)

----------------------------------------------------------------------------
(* C3: whenever kjson_read_string_utf8 returns true, *begin is the byte     *)
(* after the opening quote, *len is the number of decoded bytes, the byte   *)
(* at begin[len] is NUL and the cursor is just after the source's           *)
(* closing quote; without escapes *len is the source span and the NUL       *)
(* replaces the closing quote.                                              *)
C3_StringResult ==
    StringAccepted =>
        LET ref == RefToken(src) IN
        /\ ref.what = "ok"
        /\ sres.begin = 2
        /\ sres.len = Len(ref.bytes)
        /\ buf[sres.begin + sres.len] = NUL
        /\ sres.s = ref.close + 1
        /\ (~ref.esc => sres.len = ref.close - 2 /\ buf[ref.close] = NUL)

C3_Witness ==
    /\ StringAccepted
    /\ RefToken(src).esc
    /\ sres.len >= 2
    /\ sres.s < Len(src)

(* C4 as claimed: every accepted string decodes to valid UTF-8, whatever    *)
(* the raw bytes of the source token are.                                   *)
C4_Utf8AnySource == StringAccepted => IsUtf8(Decoded)

(* C4 amended: an accepted string whose source token is valid UTF-8         *)
(* decodes to valid UTF-8.                                                  *)
C4_Utf8 == StringAccepted /\ IsUtf8(SourceBody) => IsUtf8(Decoded)

C4_Witness ==
    /\ StringAccepted
    /\ IsUtf8(SourceBody)
    /\ RefToken(src).esc
    /\ \E i \in 1..Len(SourceBody) : SourceBody[i] >= 128
    /\ \E i \in 1..Len(Decoded) : Decoded[i] >= 240

(* C5: the decoded bytes of every accepted string token are the reference   *)
(* decoding of its source: raw bytes unchanged, the eight simple escapes,   *)
(* \uXXXX as 1, 2 or 3 UTF-8 bytes and a surrogate pair as 4.               *)
C5_Decoding ==
    StringAccepted =>
        LET ref == RefToken(src) IN
        /\ ref.what = "ok"
        /\ Decoded = ref.bytes

C5_Witness ==
    /\ StringAccepted
    /\ src = << QUOTE >> \o U4(68, 56, 51, 52) \o U4(68, 68, 49, 69) \o << QUOTE, NUL >>
    /\ Decoded = << 240, 157, 132, 158 >>

(* C6: a \u high surrogate not directly followed by a \u low surrogate,     *)
(* and a \u low surrogate not preceded by a high one, make                  *)
(* kjson_read_string_utf8 return false.                                     *)
C6_LoneSurrogate ==
    StringReturned /\ RefToken(src).what \in { "lone_high", "lone_low" } => ~sres.ok

C6_Witness ==
    /\ StringReturned
    /\ RefToken(src).what = "lone_high"
    /\ SafeAt(src, RefToken(src).at + 6) = BSLASH
    /\ ~sres.ok

(* C7: an unescaped byte <= 0x1F (the terminator of an unterminated string  *)
(* included) before the closing quote makes kjson_read_string_utf8 return   *)
(* false, in the fast scan and in the rewrite loop; 0x7F is accepted.       *)
C7_ControlBytes ==
    StringReturned =>
        LET ref == RefToken(src)
            body == SubSeq(src, 2, ref.close - 1)
        IN  /\ (ref.what = "control" => ~sres.ok)
            /\ (ref.what = "ok" /\ (\E i \in 1..Len(body) : body[i] = 127) => sres.ok)

C7_Witness ==
    /\ StringReturned
    /\ mode.word
    /\ RefToken(src).what = "control"
    /\ src[RefToken(src).at] = 31
    /\ \E i \in 2..RefToken(src).at : src[i] = BSLASH
    /\ ~sres.ok

----------------------------------------------------------------------------
(* Documents, event parsers and the tree.                                   *)

(* kjson_parse has returned and every access it made was defined *)
ParseReturned == pc \in { "parsed", "finalised" }

(* kjson_parse has made an access with no defined outcome *)
ParseUndefined == pc = "undefined" /\ result = "none"

(* the document is well formed: kjson_parse_mid_rec accepts it *)
WellFormed == rec.done /\ rec.ok /\ ~rec.over

IsPrefix(a, b) == Len(a) <= Len(b) /\ SubSeq(b, 1, Len(a)) = a

(* C1: on every document that kjson_parse_mid_rec accepts, the stackless    *)
(* parser makes the same callbacks with the same arguments in the same      *)
(* order (at every iteration what it has emitted is a prefix of the         *)
(* recursive parser's events) and returns true.                             *)
C1_SameEvents ==
    WellFormed =>
        /\ IsPrefix(trace, rec.ev)
        /\ ParseReturned => (result = "true" /\ trace = rec.ev)
        /\ ~ParseUndefined

C1_Witness ==
    /\ WellFormed /\ pc = "parsed" /\ result = "true" /\ trace = rec.ev
    /\ \E i, j, k \in 1..Len(trace) :
         /\ trace[i].t = "o_entry"
         /\ trace[j].t = "a_entry"
         /\ trace[k].t = "leaf" /\ trace[k].kind = KJSON_LEAF_STRING

(* C2: the stackless parser rejects every document the recursive parser     *)
(* rejects.                                                                 *)
C2_RejectsMalformed ==
    (rec.done /\ ~rec.ok /\ ~rec.over /\ ParseReturned) => result = "false"

(* The tree behind a value of the builder, read from the heap and the       *)
(* buffer, and the tree an event sequence describes.                        *)
LeafTree(kind, b, ineg, imag, d, str) ==
    [t |-> "leaf", kind |-> kind, b |-> b, ineg |-> ineg, imag |-> imag,
     d |-> d, str |-> str]
Garbage == [t |-> "garbage"]
Node(in_array, items) ==
    [t |-> IF in_array THEN "array" ELSE "object", n |-> Len(items), items |-> items]
Item(keyed, key, value) == [keyed |-> keyed, key |-> key, value |-> value]

RECURSIVE TreeOf(_, _, _)
TreeOf(heap, mem, val) ==
    IF val.type \in KJSON_VALUE_NULL..KJSON_VALUE_STRING THEN
        LeafTree(val.type, val.b, val.ineg, val.imag, val.d,
                 IF val.type = KJSON_VALUE_STRING
                 THEN Slice(mem, val.begin, val.len) ELSE << >>)
    ELSE IF val.type \notin { KJSON_VALUE_ARRAY, KJSON_VALUE_OBJECT } THEN Garbage
    ELSE IF val.n > 0 /\ (val.data = 0 \/ val.data > Len(heap)) THEN Garbage
    ELSE IF val.type = KJSON_VALUE_ARRAY THEN
        Node(TRUE,
             [i \in 1..val.n |->
                LET off == (i - 1) * SizeofValue IN
                IF off \in DOMAIN heap[val.data].vals
                THEN Item(FALSE, << >>, TreeOf(heap, mem, heap[val.data].vals[off]))
                ELSE Item(FALSE, << >>, Garbage)])
    ELSE
        Node(FALSE,
             [i \in 1..val.n |->
                LET off == (i - 1) * SizeofEntry IN
                IF off \in DOMAIN heap[val.data].keys
                   /\ off + SizeofString \in DOMAIN heap[val.data].vals
                THEN Item(TRUE,
                          Slice(mem, heap[val.data].keys[off].begin,
                                heap[val.data].keys[off].len),
                          TreeOf(heap, mem, heap[val.data].vals[off + SizeofString]))
                ELSE Item(TRUE, << >>, Garbage)])

(* the value that starts at event i and the index after its last event *)
RECURSIVE RefValue(_, _)
RECURSIVE RefItems(_, _, _, _)
RefValue(ev, i) ==
    IF ev[i].t = "leaf"
    THEN [tree |-> LeafTree(ev[i].kind, ev[i].b, ev[i].ineg, ev[i].imag, ev[i].d,
                            ev[i].str),
          next |-> i + 1]
    ELSE RefItems(ev, i + 1, ev[i].in_array, << >>)
RefItems(ev, j, in_array, items) ==
    IF ev[j].t = "end" THEN [tree |-> Node(in_array, items), next |-> j + 1]
    ELSE LET v == RefValue(ev, j + 1) IN
         RefItems(ev, v.next, in_array,
                  Append(items, IF ev[j].t = "o_entry"
                                THEN Item(TRUE, ev[j].key, v.tree)
                                ELSE Item(FALSE, << >>, v.tree)))
RefTree(ev) == RefValue(ev, 1).tree

(* C8: for a well-formed document the tree kjson_parse has built is the     *)
(* tree of the document: every array and object has its members, all of     *)
(* them, in document order, with keys and values as written, equal keys     *)
(* kept apart, and n is their number; the builder makes no undefined        *)
(* access on the way.                                                       *)
C8_TreeMirrorsDocument ==
    WellFormed =>
        /\ high_cb.bad = {}
        /\ ParseReturned =>
              TreeOf(high_cb.heap, buf, high_cb.root) = RefTree(rec.ev)

C8_Witness ==
    /\ WellFormed /\ pc = "parsed" /\ result = "true"
    /\ high_cb.root.type = KJSON_VALUE_OBJECT /\ high_cb.root.n = 2
    /\ LET tree == TreeOf(high_cb.heap, buf, high_cb.root) IN
         /\ tree.items[1].key = << 120 >> /\ tree.items[2].key = << 120 >>
         /\ tree.items[1].value.kind = KJSON_LEAF_NUMBER_INTEGER
         /\ tree.items[2].value.kind = KJSON_LEAF_STRING

(* C9: the assertion of kjson_parse2 never fails, and when kjson_parse      *)
(* returns true the element stack holds the sentinel alone, which still     *)
(* points at the destination, and the destination has been written.         *)
C9_SentinelLeft ==
    /\ "assert" \notin high_cb.bad
    /\ (ParseReturned /\ result = "true") =>
          /\ high_cb.stack_sz = 1
          /\ high_cb.stack[1].v = RootPtr
          /\ high_cb.root.type \in KJSON_VALUE_NULL..KJSON_VALUE_OBJECT

C9_Witness ==
    /\ pc = "parsed" /\ result = "true" /\ high_cb.stack_sz = 1
    /\ high_cb.root.type = KJSON_VALUE_ARRAY
    /\ high_cb.stack_cap = 4

(* the data buffers of the tree behind a value *)
RECURSIVE TreeBuffers(_, _)
TreeBuffers(heap, val) ==
    IF val.type \notin { KJSON_VALUE_ARRAY, KJSON_VALUE_OBJECT } \/ val.data = 0 THEN {}
    ELSE { val.data } \cup
         UNION { TreeBuffers(heap, heap[val.data].vals[o]) : o \in DOMAIN heap[val.data].vals }

NoDuplicates(q) == \A i, j \in 1..Len(q) : q[i] = q[j] => i = j

(* C10: after kjson_value_fini on the tree of a well-formed document no     *)
(* buffer is allocated any more, free was called once for each data buffer  *)
(* of the tree and for nothing else, none for a tree that is a leaf, and    *)
(* the finaliser made no undefined access.                                  *)
C10_FiniFreesAll ==
    (WellFormed /\ result = "true") =>
        /\ fin.bad = {}
        /\ pc = "finalised" =>
              /\ \A i \in 1..Len(fin.heap) : ~fin.heap[i].live
              /\ NoDuplicates(fin.freed)
              /\ { fin.freed[i] : i \in 1..Len(fin.freed) }
                    = TreeBuffers(high_cb.heap, high_cb.root)
              /\ { fin.freed[i] : i \in 1..Len(fin.freed) }
                    = { i \in 1..Len(high_cb.heap) : high_cb.heap[i].live }
              /\ high_cb.root.type \in KJSON_VALUE_NULL..KJSON_VALUE_STRING
                    => fin.freed = << >>

C10_Witness ==
    /\ WellFormed /\ pc = "finalised" /\ result = "true"
    /\ Len(fin.freed) = 2
    /\ \A i \in 1..Len(fin.heap) : ~fin.heap[i].live


----------------------------------------------------------------------------
(* C11: when kjson_parse has returned false and the caller has called       *)
(* kjson_value_fini on the destination, no buffer of the parse is still     *)
(* allocated and the finaliser has read nothing the parse left unwritten.   *)
C11_FailureReleasesAll ==
    (result = "false" /\ pc \in { "finalised", "undefined" }) =>
        /\ fin.bad = {}
        /\ \A i \in 1..Len(fin.heap) : ~fin.heap[i].live


----------------------------------------------------------------------------
(* Where the first value of a document ends, read off the bytes: a string   *)
(* ends after its closing quote, a composite after the bracket that closes  *)
(* its opening one, a literal or number with its last byte.                 *)
RECURSIVE RefStringEnd(_, _)
RefStringEnd(doc, i) ==
    IF doc[i] = NUL THEN i
    ELSE IF doc[i] = QUOTE THEN i + 1
    ELSE IF doc[i] = BSLASH /\ doc[i + 1] # NUL THEN RefStringEnd(doc, i + 2)
    ELSE RefStringEnd(doc, i + 1)

RECURSIVE RefCompositeEnd(_, _, _)
RefCompositeEnd(doc, i, open) ==
    IF doc[i] = NUL THEN i
    ELSE IF doc[i] = QUOTE THEN RefCompositeEnd(doc, RefStringEnd(doc, i + 1), open)
    ELSE IF doc[i] \in { 91, 123 } THEN RefCompositeEnd(doc, i + 1, open + 1)
    ELSE IF doc[i] \in { 93, 125 }
         THEN IF open = 1 THEN i + 1 ELSE RefCompositeEnd(doc, i + 1, open - 1)
    ELSE RefCompositeEnd(doc, i + 1, open)

IsLeafByte(c) ==
    \/ 48 <= c /\ c <= 57
    \/ 65 <= c /\ c <= 90
    \/ 97 <= c /\ c <= 122
    \/ c \in { 43, 45, 46 }

RECURSIVE RefLeafEnd(_, _)
RefLeafEnd(doc, i) == IF IsLeafByte(doc[i]) THEN RefLeafEnd(doc, i + 1) ELSE i

RefValueEnd(doc, i) ==
    IF doc[i] = QUOTE THEN RefStringEnd(doc, i + 1)
    ELSE IF doc[i] \in { 91, 123 } THEN RefCompositeEnd(doc, i + 1, 1)
    ELSE RefLeafEnd(doc, i)

(* C12: after a parser has returned true the cursor is at the byte after    *)
(* the last byte of the top-level value, for kjson_parse_mid_rec and for    *)
(* the stackless parser.                                                    *)
C12_CursorAfterValue ==
    /\ (rec.done /\ rec.ok /\ ~rec.over) => rec.s = RefValueEnd(src, 1)
    /\ (ParseReturned /\ result = "true") => p.s = RefValueEnd(src, 1)


----------------------------------------------------------------------------
(* the number of events of kind t in a sequence of events *)
RECURSIVE CountEv(_, _)
CountEv(ev, t) ==
    IF ev = << >> THEN 0
    ELSE (IF ev[1].t = t THEN 1 ELSE 0) + CountEv(Tail(ev), t)

OpenComposites(ev) == CountEv(ev, "begin") - CountEv(ev, "end")

----------------------------------------------------------------------------
IsEntryEv(e) == e.t \in { "a_entry", "o_entry" }
IsValueStartEv(e) == e.t \in { "leaf", "begin" }

(* in a sequence of events: an entry event is directly followed by a value  *)
(* start, and a value start that is not the first event directly follows an *)
(* entry event                                                              *)
EntriesPairValues(ev) ==
    /\ \A i \in 1..(Len(ev) - 1) : IsEntryEv(ev[i]) => IsValueStartEv(ev[i + 1])
    /\ \A i \in 2..Len(ev) : IsValueStartEv(ev[i]) => IsEntryEv(ev[i - 1])

EntryPending(ev) == ev # << >> /\ IsEntryEv(ev[Len(ev)])

(* C14: in the events of either parser every a_entry or o_entry is directly *)
(* followed by one leaf or begin event, every leaf or begin event except    *)
(* the first event directly follows an entry event, and a parse that        *)
(* returns true leaves no entry without its value.                          *)
C14_EntryThenValue ==
    /\ EntriesPairValues(trace)
    /\ EntriesPairValues(rec.ev)
    /\ (ParseReturned /\ result = "true") => ~EntryPending(trace)
    /\ (rec.done /\ rec.ok) => ~EntryPending(rec.ev)

C14_Witness ==
    /\ ParseReturned /\ result = "true" /\ rec.ok
    /\ \E i \in 1..Len(trace) : trace[i].t = "a_entry"
    /\ \E i \in 1..Len(trace) : trace[i].t = "o_entry"
    /\ \E i \in 2..Len(trace) : trace[i].t = "begin"


----------------------------------------------------------------------------
(* What a number text says, read off its bytes. *)
RECURSIVE RefRun(_, _)
RefRun(doc, i) ==
    IF 48 <= doc[i] /\ doc[i] <= 57 THEN << doc[i] - 48 >> \o RefRun(doc, i + 1)
    ELSE << >>

HasMinus == src[1] = 45
AfterMinus == IF HasMinus THEN 2 ELSE 1
RefDigits == RefRun(src, AfterMinus)
RefMagnitude == StripZeros(RefDigits)
AfterDigits == AfterMinus + Len(RefDigits)

(* an optional '-' and a decimal numeral without leading zeros, and nothing *)
(* else                                                                     *)
IsNumeral ==
    /\ RefDigits # << >>
    /\ RefDigits[1] # 0 \/ Len(RefDigits) = 1
    /\ src[AfterDigits] = NUL

RefFits ==
    IF HasMinus THEN ~NumLess(INTMAX_MAX_P1, RefMagnitude)
    ELSE ~NumLess(INTMAX_MAX, RefMagnitude)

NumbersRead == pc = "read"

NumberIs(neg, mag) ==
    /\ num.number.r = KJSON_LEAF_NUMBER_INTEGER
    /\ num.number.s = AfterDigits
    /\ num.number.ineg = neg /\ num.number.imag = mag

IntegerIs(neg, mag) ==
    /\ num.integer.ok
    /\ num.integer.s = AfterDigits
    /\ num.integer.v = [neg |-> neg, mag |-> mag]

(* C15: the numerals of INTMAX_MAX and of INTMAX_MIN are accepted by        *)
(* kjson_read_number and by kjson_read_integer as integers of exactly that  *)
(* value.                                                                   *)
C15_BoundaryAccepted ==
    /\ (NumbersRead /\ IsNumeral /\ ~HasMinus /\ RefMagnitude = INTMAX_MAX) =>
           NumberIs(FALSE, INTMAX_MAX) /\ IntegerIs(FALSE, INTMAX_MAX)
    /\ (NumbersRead /\ IsNumeral /\ HasMinus /\ RefMagnitude = INTMAX_MAX_P1) =>
           NumberIs(TRUE, INTMAX_MAX_P1) /\ IntegerIs(TRUE, INTMAX_MAX_P1)

(* C16: the numerals of INTMAX_MAX + 1 and of INTMAX_MIN - 1 are rejected   *)
(* by kjson_read_number and by kjson_read_integer.                          *)
C16_BeyondRejected ==
    (/\ NumbersRead /\ IsNumeral
     /\ \/ ~HasMinus /\ RefMagnitude = INTMAX_MAX_P1
        \/ HasMinus /\ RefMagnitude = INTMAX_MAX_P2) =>
        num.number.r < 0 /\ ~num.integer.ok


----------------------------------------------------------------------------
(* The digit run a successful read has consumed is the first one of the     *)
(* text: what precedes it holds no digit.                                   *)
RECURSIVE FirstDigitFrom(_, _)
FirstDigitFrom(doc, i) ==
    IF doc[i] = NUL THEN 0
    ELSE IF 48 <= doc[i] /\ doc[i] <= 57 THEN i
    ELSE FirstDigitFrom(doc, i + 1)

FirstDigit == FirstDigitFrom(src, 1)
ConsumedRun == IF FirstDigit = 0 THEN << >> ELSE RefRun(src, FirstDigit)
RunEnd == FirstDigit + Len(ConsumedRun)
MinusBefore == \E i \in 1..(FirstDigit - 1) : src[i] = 45
NumberRead == pc \in { "integer", "read" }

(* C17: when kjson_read_number succeeds it has consumed a digit run; the    *)
(* kind is double exactly when the byte after the run is '.', 'E' or 'e'    *)
(* and integer otherwise; an integer is the value of the run (within the    *)
(* signed range) with the sign applied and leaves the cursor at the byte    *)
(* after the run; a double leaves the cursor after the bytes it was made    *)
(* from; a text without a digit gives a negative return.                    *)
C17_ClassifiesByNextByte ==
    /\ (NumberRead /\ FirstDigit = 0) => num.number.r < 0
    /\ (NumberRead /\ num.number.r >= 0) =>
          /\ FirstDigit > 0 /\ FirstDigit < num.number.s
          /\ num.number.r \in { KJSON_LEAF_NUMBER_INTEGER, KJSON_LEAF_NUMBER_DOUBLE }
          /\ (num.number.r = KJSON_LEAF_NUMBER_DOUBLE) <=> (src[RunEnd] \in { 46, 69, 101 })
    /\ (NumberRead /\ num.number.r = KJSON_LEAF_NUMBER_INTEGER) =>
          /\ num.number.s = RunEnd
          /\ ~NumLess(INTMAX_MAX, StripZeros(ConsumedRun)) =>
                /\ num.number.imag = StripZeros(ConsumedRun)
                /\ num.number.ineg = (MinusBefore /\ num.number.imag # << >>)
    /\ (NumberRead /\ num.number.r = KJSON_LEAF_NUMBER_DOUBLE) =>
          /\ RunEnd <= num.number.s /\ num.number.s <= Len(src)
          /\ num.number.d = SubSeq(src, 1, num.number.s - 1)

C17_Witness ==
    /\ NumberRead /\ HasMinus
    /\ num.number.r = KJSON_LEAF_NUMBER_INTEGER
    /\ num.number.ineg /\ num.number.imag = << 1, 2 >>
    /\ src[num.number.s] = 120


----------------------------------------------------------------------------
(* The integer texts: after the optional '-' a single '0', or a digit run   *)
(* that starts with a non-zero digit and fits intmax_t with its sign; the   *)
(* byte after the consumed digits is not '.'.                               *)
RefIntegerOk ==
    /\ RefDigits # << >>
    /\ IF RefDigits[1] = 0 THEN src[AfterMinus + 1] # 46
       ELSE RefFits /\ src[AfterDigits] # 46

(* C19: kjson_read_integer returns true exactly for the integer texts; in   *)
(* particular it returns false when no digit is present.                    *)
C19_IntegerExactly ==
    NumbersRead => (num.integer.ok <=> RefIntegerOk)


----------------------------------------------------------------------------
(* the bytes of a document that lie outside its tokens: outside strings,    *)
(* and neither a bracket, ',' or ':' nor a byte of a literal or number      *)
RECURSIVE OutsideTokens(_, _)
OutsideTokens(doc, i) ==
    IF doc[i] = NUL THEN {}
    ELSE IF doc[i] = QUOTE THEN OutsideTokens(doc, RefStringEnd(doc, i + 1))
    ELSE IF doc[i] \in { 91, 93, 123, 125, 44, 58 } \/ IsLeafByte(doc[i])
    THEN OutsideTokens(doc, i + 1)
    ELSE { doc[i] } \cup OutsideTokens(doc, i + 1)

JsonSpace == { 32, 9, 10, 13 }

(* C18: a document that kjson_parse_mid_rec or kjson_parse_mid accepts has  *)
(* no byte outside its tokens other than 0x20, 0x09, 0x0A and 0x0D.         *)
C18_OnlyJsonSpaceSkipped ==
    /\ (rec.done /\ rec.ok) => OutsideTokens(src, 1) \subseteq JsonSpace
    /\ (ParseReturned /\ result = "true") => OutsideTokens(src, 1) \subseteq JsonSpace

(* the events without the buffer offsets of their strings *)
NoOffsets(ev) ==
    [i \in 1..Len(ev) |->
        IF ev[i].t \in { "leaf", "o_entry" } THEN [ev[i] EXCEPT !.begin = 0] ELSE ev[i]]

LeadingSpace == skip_space(src, 1) - 1
WithoutLeadingSpace == SubSeq(src, LeadingSpace + 1, Len(src))
ParsedWithoutLeadingSpace == kjson_parse_mid_rec(WithoutLeadingSpace, 1, << >>, mode, NUL)

(* white space, then a value the parsers accept when it stands alone *)
SpaceThenValue ==
    /\ LeadingSpace > 0
    /\ OutsideTokens(src, 1) \subseteq JsonSpace
    /\ ParsedWithoutLeadingSpace.ok /\ ~ParsedWithoutLeadingSpace.over

(* C20: a document of white space followed by a well-formed value is        *)
(* accepted by kjson_parse_mid_rec and by kjson_parse_mid, with the events  *)
(* of the value standing alone.                                             *)
C20_LeadingSpaceSkipped ==
    /\ (rec.done /\ SpaceThenValue) =>
          /\ rec.ok
          /\ NoOffsets(rec.ev) = NoOffsets(ParsedWithoutLeadingSpace.ev)
    /\ (pc \in { "parsed", "finalised", "undefined" } /\ SpaceThenValue) =>
          /\ result = "true"
          /\ NoOffsets(trace) = NoOffsets(ParsedWithoutLeadingSpace.ev)


----------------------------------------------------------------------------
(* bytes other than white space stand between the end of the first value    *)
(* of the document and its NUL                                              *)
TrailingGarbage == src[skip_space(src, RefValueEnd(src, 1))] # NUL

(* C21: a document with non-white-space bytes after its value is rejected   *)
(* by kjson_parse_mid_rec and by kjson_parse (through kjson_parse_mid).     *)
C21_TrailingGarbageFails ==
    /\ (rec.done /\ TrailingGarbage) => ~rec.ok
    /\ (ParseReturned /\ TrailingGarbage) => result = "false"


----------------------------------------------------------------------------
(* the leaves of an event sequence that are neither null, a boolean nor a   *)
(* string                                                                   *)
IsOtherLeaf(e) ==
    e.t = "leaf" /\ e.kind \notin { KJSON_LEAF_NULL, KJSON_LEAF_BOOLEAN, KJSON_LEAF_STRING }

OtherLeaves(ev) == { i \in 1..Len(ev) : IsOtherLeaf(ev[i]) }

(* the positions before the cursor at which a leaf starts that is neither   *)
(* a string nor a literal: bytes outside strings that no bracket, comma,    *)
(* colon, white space or literal accounts for                               *)
RECURSIVE OtherStarts(_, _, _)
OtherStarts(doc, i, end) ==
    IF i >= end \/ doc[i] = NUL THEN {}
    ELSE IF doc[i] = QUOTE THEN OtherStarts(doc, RefStringEnd(doc, i + 1), end)
    ELSE IF StartsWith(doc, i, << 110, 117, 108, 108 >>)
         \/ StartsWith(doc, i, << 116, 114, 117, 101 >>)
    THEN OtherStarts(doc, i + 4, end)
    ELSE IF StartsWith(doc, i, << 102, 97, 108, 115, 101 >>)
    THEN OtherStarts(doc, i + 5, end)
    ELSE IF doc[i] \in { 91, 93, 123, 125, 44, 58 } \cup JsonSpace
    THEN OtherStarts(doc, i + 1, end)
    ELSE { i } \cup OtherStarts(doc, i + 1, end)

ReadOtherSet == ~mode.read_other.null

(* What C22 says of one parser with events ev and cursor s: the leaves     *)
(* that are neither strings nor literals carry the kind of read_other and   *)
(* the union as read_other left it (kjson_read_number would have stored     *)
(* the value 1), every such leaf start before the cursor was accepted, and  *)
(* there is one leaf event for each of them and none for a rejected one.    *)
OtherLeavesFrom(ev, s) ==
    /\ \A i \in OtherLeaves(ev) :
          ev[i].kind = mode.read_other.ret /\ ev[i].imag = << >>
    /\ \A i \in OtherStarts(src, 1, s) : src[i] \in mode.read_other.accept
    /\ Cardinality(OtherLeaves(ev)) = Cardinality(OtherStarts(src, 1, s))

(* C22: with a read_other set, every leaf that is neither a string nor a    *)
(* literal has the kind read_other returned, each accepted call gives       *)
(* exactly one leaf event, kjson_read_number is not used, and a negative    *)
(* return ends the parse with false and without a leaf event.               *)
C22_ReadOtherDecides ==
    /\ (ReadOtherSet /\ rec.done) => OtherLeavesFrom(rec.ev, rec.s)
    /\ (ReadOtherSet /\ ParseReturned) => OtherLeavesFrom(trace, p.s)

C22_Witness ==
    /\ ReadOtherSet /\ mode.read_other.ret = 7
    /\ ParseReturned /\ result = "false" /\ ~rec.ok
    /\ Cardinality(OtherLeaves(trace)) = 1
    /\ src[p.s - 1] = 44
    /\ src[p.s] = 120 /\ src[p.s] \notin mode.read_other.accept


----------------------------------------------------------------------------
(* the build without UL_REPEATED8 on the same token *)
ByteBuild == [word |-> FALSE, align |-> 0, read_other |-> NoReadOther]
ByteResult == kjson_read_string_utf8(src, 1, ByteBuild, NUL)

(* the two tests of the word search on the word at s agree with its bytes *)
WordTestsExact(s, tb) ==
    \A x \in { LoadWord(src, s, tb) } :
        LET toEscape == \/ ZeroByteTest(WordXor(x, UL_REPEATED8(QUOTE)))
                        \/ ZeroByteTest(WordXor(x, UL_REPEATED8(BSLASH)))
            toFail == ZeroByteTest(WordAndNot(x, UL_REPEATED8(CTRLMAX)))
        IN  /\ toEscape <=> \E k \in 1..WordBytes : x[k] \in { QUOTE, BSLASH }
            /\ toFail <=> \E k \in 1..WordBytes : x[k] < 32

(* C23: on every token and at every alignment the word-at-a-time search     *)
(* takes the escape path iff a byte of the word is '"' or '\' and fails iff *)
(* a byte is below 0x20, and the call returns what the byte-at-a-time build *)
(* returns: the same result and, on success, the same bytes, length and     *)
(* cursor.                                                                  *)
C23_WordScanAgrees ==
    (pc = "string_done" /\ mode.word) =>
        /\ \A s \in 1..Len(src) :
              \A tb \in IF s + WordBytes - 1 <= Len(src) THEN { NUL } ELSE TailBytes :
                  WordTestsExact(s, tb)
        /\ \A b \in { ByteResult } :
              /\ sres.ok = b.ok
              /\ sres.ok => /\ sres.mem = b.mem
                            /\ sres.begin = b.begin
                            /\ sres.len = b.len
                            /\ sres.s = b.s

(* a token accepted by the word build after it has passed a whole word      *)
(* that holds 0x23, 0x5D, 0x7F and 0xFF, the search starting unaligned      *)
C23_Witness ==
    /\ pc = "string_done" /\ mode.word /\ mode.align = 2
    /\ sres.ok /\ sres.len >= 6
    /\ SubSeq(src, 3, 6) = << 35, 93, 127, 255 >>


----------------------------------------------------------------------------
(* The rewrite loop of kjson_read_string_utf8 from the state (cursor s,     *)
(* write pointer end), followed step by step: TRUE when at every step, and  *)
(* after every escape, the write pointer is not beyond the cursor.          *)
RECURSIVE WriteNeverAhead(_, _, _)
WriteNeverAhead(mem, s, end) ==
    IF end > s THEN FALSE
    ELSE IF mem[s] = QUOTE \/ IsControl(mem[s]) THEN TRUE
    ELSE IF mem[s] = BSLASH THEN
        \A e \in { escaped(mem, end, s + 1) } :
            IF ~e.ok THEN e.r = end
            ELSE e.r <= e.s /\ WriteNeverAhead(e.mem, e.s, e.r)
    ELSE WriteNeverAhead(IF end # s THEN [mem EXCEPT ![end] = mem[s]] ELSE mem,
                         s + 1, end + 1)

(* C24: in the rewrite phase of kjson_read_string_utf8 the write pointer    *)
(* never exceeds the read cursor, whatever the escapes of the token.        *)
C24_WriteBehindRead ==
    \A tb \in (IF mode.word THEN TailBytes ELSE { NUL }) :
        \A sc \in { FastScan(src, 2, mode, tb) } :
            sc.esc => WriteNeverAhead(src, sc.s, sc.s)

(* an accepted token with a surrogate pair followed by a raw byte: four     *)
(* bytes written for twelve read, then a byte copied eight places down      *)
C24_Witness ==
    /\ pc = "string_done" /\ sres.ok
    /\ Len(src) >= 14
    /\ SubSeq(src, 2, 13) = U4(68, 56, 51, 52) \o U4(68, 68, 49, 69)
    /\ src[14] = 110
    /\ sres.len = 5 /\ sres.mem[6] = 110


----------------------------------------------------------------------------
(* the body of the token holds a backslash followed by a byte that selects  *)
(* no escape, the terminator included                                       *)
BadSelector(i) ==
    /\ src[i] = BSLASH
    /\ src[i + 1] \notin { 34, 92, 47, 98, 102, 110, 114, 116, 117 }

(* C25: kjson_read_string_utf8 leaves the cursor at or before the           *)
(* terminating NUL and reads no byte after it in escaped and hex4, and a    *)
(* token whose first backslash is followed by a byte that selects no escape *)
(* (the NUL included) is rejected without such a read.                      *)
C25_StaysInsideBuffer ==
    pc = "string_done" =>
        /\ ~sres.over
        /\ sres.s <= Len(src)
        /\ \A i \in 2..(Len(src) - 1) :
              (BadSelector(i) /\ \A j \in 2..(i - 1) : src[j] \notin { QUOTE, BSLASH })
                  => ~sres.ok


----------------------------------------------------------------------------
(* the token at the cursor: its closing quote (the terminator when there is *)
(* none) and its first backslash (the closing quote when there is none)     *)
RECURSIVE RefCloseAt(_, _)
RefCloseAt(doc, i) ==
    IF doc[i] = NUL \/ doc[i] = QUOTE THEN i
    ELSE IF doc[i] = BSLASH /\ doc[i + 1] # NUL THEN RefCloseAt(doc, i + 2)
    ELSE RefCloseAt(doc, i + 1)

TokenClose == RefCloseAt(src, p.s + 1)
TokenClosed == src[TokenClose] = QUOTE
TokenFirstEscape ==
    LET bs == { i \in (p.s + 1)..TokenClose : src[i] = BSLASH }
    IN  IF bs = {} THEN TokenClose ELSE CHOOSE i \in bs : \A j \in bs : i <= j

Written == { i \in 1..Len(src) : sres.mem[i] # src[i] }

(* C26: the bytes kjson_read_string_utf8 changes lie between the first      *)
(* backslash of its token (the closing quote when there is none) and the    *)
(* closing quote; a token without closing quote changes nothing at or after *)
(* the terminator; the buffer keeps its length.                             *)
C26_WritesInsideToken ==
    (pc = "string_done" /\ src[p.s] = QUOTE) =>
        /\ Len(sres.mem) = Len(src)
        /\ \A i \in Written : TokenFirstEscape <= i /\ i <= TokenClose
        /\ ~TokenClosed => \A i \in Written : i < TokenClose

(* an accepted token with an escape, between other bytes of a document *)
C26_Witness ==
    /\ pc = "string_done" /\ sres.ok
    /\ p.s > 1 /\ TokenClosed /\ src[TokenClose + 1] # NUL
    /\ TokenFirstEscape < TokenClose
    /\ Cardinality(Written) >= 3


----------------------------------------------------------------------------
(* the cells of a heap buffer are those of an array of struct kjson_value,  *)
(* or those of an array of struct kjson_object_entry                        *)
UsedAsArray(b) ==
    /\ DOMAIN b.keys = {}
    /\ \A o \in DOMAIN b.vals : o % SizeofValue = 0
UsedAsObject(b) ==
    /\ \A o \in DOMAIN b.keys : o % SizeofEntry = 0
    /\ \A o \in DOMAIN b.vals : o % SizeofEntry = SizeofString

(* C27: whatever events the stackless parser delivers, the tree builder     *)
(* writes no slot that reaches beyond the buffer of its element, and every  *)
(* buffer holds slots of one type only.                                     *)
C27_SlotsInsideBuffer ==
    /\ "heap_overflow" \notin high_cb.bad
    /\ \A i \in 1..Len(high_cb.heap) :
          UsedAsArray(high_cb.heap[i]) \/ UsedAsObject(high_cb.heap[i])


(* C28: at every loop-iteration boundary of kjson_parse_mid2 under          *)
(* kjson_parse2 the element stack holds one element more than the parser's  *)
(* depth counter; high_end never finds fewer than two elements, so the      *)
(* sentinel is never popped, and the stack is never empty, so top() never   *)
(* indexes below it.                                                        *)
C28_StackTracksDepth ==
    /\ "stack_underflow" \notin high_cb.bad
    /\ pc = "mid2" =>
          /\ high_cb.stack_sz = mid2.depth + 1
          /\ Len(high_cb.stack) = high_cb.stack_sz
    /\ high_cb.stack_sz >= 1

C28_Witness ==
    /\ pc = "mid2" /\ mid2.depth = 2 /\ high_cb.stack_sz = 3
    /\ \E i \in 1..Len(trace) : trace[i].t = "end"


----------------------------------------------------------------------------
(* Documents with escapes, a backslash before the terminator included, for  *)
(* the termination of kjson_parse_mid2.                                     *)
MaxTermTokens == 3

TermHeads ==
    { << 91 >>,                          \* [
      << 49 >>,                          \* 1
      << 34, 92 >>,                      \* "\
      << 123, 34, 120, 34, 58 >> }       \* {"x":

TermPieces ==
    { << 91 >>,                          \* [
      << 49 >>,                          \* 1
      << 34, 97, 34 >>,                  \* "a"
      << 34, 92 >>,                      \* "\
      << 34, 92, 110, 34 >>,             \* "\n"
      << 44 >>,                          \* ,
      << 93 >> }                         \* ]

TermDocuments ==
    { h \o Concat(q) \o << NUL >> :
        h \in TermHeads, q \in UNION { PieceSeqs(TermPieces, n) : n \in 0..MaxTermTokens } }

InitTerm ==
    /\ src \in TermDocuments
    /\ buf = src
    /\ mode \in ParseModes
    /\ pc = "rec"
    /\ sres = NoResult
    /\ p = [s |-> 1]
    /\ mid2 = Mid2Init
    /\ trace = << >>
    /\ rec = NoRec
    /\ high_cb = high_cb_init
    /\ result = "none"
    /\ fin = NoFin
    /\ num = NoNum
    /\ cxx = NoCxx

SpecTerm == InitTerm /\ [][Next]_vars

(* the run ended inside the tree builder or the caller's kjson_value_fini *)
BuilderUndefined == pc = "undefined" /\ (high_cb.bad # {} \/ fin.bad # {})

(* C29: on every NUL-terminated buffer kjson_parse_mid2 returns true or     *)
(* false: the cursor never moves backwards, every iteration of the main     *)
(* loop that does not return moves it forwards, and it stays inside the     *)
(* buffer, so that the loop ends after at most as many iterations as the    *)
(* buffer has bytes, and it ends by a return.                               *)
C29_Mid2Terminates ==
    /\ [][pc = "mid2" =>
            /\ p'.s >= p.s
            /\ pc' = "mid2" => p'.s > p.s]_vars
    /\ [](p.s <= Len(src))
    /\ [](pc = "undefined" => BuilderUndefined)


----------------------------------------------------------------------------
(* The C++ wrapper kjson_impl<Opt> with Opt = opt_throw (kjson.hh).         *)

(* enum class error *)
PARSE_JSON          == 1
NOT_NULL            == 2
NOT_A_BOOLEAN       == 3
NOT_A_NUMBER        == 4
NOT_A_STRING        == 5
NOT_A_LIST          == 6
NOT_AN_OBJECT       == 7
KEY_NOT_UNIQUE      == 8
KEY_NOT_FOUND       == 9
INDEX_OUT_OF_BOUNDS == 10
PARSE_NUMBER        == 11

nullptr == [null |-> TRUE, str |-> ""]
Msg(str) == [null |-> FALSE, str |-> str]

(* the table, whose C index i is the position i + 1 here *)
error_messages ==
    << nullptr,
       Msg("JSON parse error"),
       Msg("not null"),
       Msg("not a boolean"),
       Msg("not a number"),
       Msg("not a list"),
       Msg("not an object"),
       Msg("key not unique"),
       Msg("key not found"),
       Msg("index out of bounds"),
       Msg("number parse error") >>

(* what a read of a pointer behind the last element of the table can give *)
AfterTable == { nullptr, Msg("?") }

(* opt_throw::exception(code): the message is error_messages[(int)code] *)
exception(code) ==
    IF code \in 0..(Len(error_messages) - 1)
    THEN { [code |-> code, what |-> error_messages[code + 1], over |-> FALSE] }
    ELSE { [code |-> code, what |-> w, over |-> TRUE] : w \in AfterTable }

(* Opt::some and Opt::none as the members of kjson_impl use them *)
some(val) == [has |-> TRUE, err |-> 0, val |-> val]
none(err) == [has |-> FALSE, err |-> err, val |-> 0]

KJSON_VALUE_N == KJSON_VALUE_OBJECT + 1
NUMERIC == KJSON_VALUE_N

(* the entries of the object v whose key equals sv *)
KeyMatches(v, sv) == { i \in 1..v.n : v.keys[i] = sv }

count(v, sv) ==
    IF v.type # KJSON_VALUE_OBJECT THEN none(NOT_AN_OBJECT)
    ELSE some(Cardinality(KeyMatches(v, sv)))

contains(v, sv) ==
    IF v.type # KJSON_VALUE_OBJECT THEN none(NOT_AN_OBJECT)
    ELSE some(KeyMatches(v, sv) # {})

get(v, sv) ==
    IF v.type # KJSON_VALUE_OBJECT THEN none(NOT_AN_OBJECT)
    ELSE some(KeyMatches(v, sv))

at_key(v, sv) ==
    IF v.type # KJSON_VALUE_OBJECT THEN none(NOT_AN_OBJECT)
    ELSE IF Cardinality(KeyMatches(v, sv)) > 1 THEN none(KEY_NOT_UNIQUE)
    ELSE IF KeyMatches(v, sv) # {} THEN some(CHOOSE i \in KeyMatches(v, sv) : TRUE)
    ELSE none(KEY_NOT_FOUND)

size(v) ==
    IF v.type # KJSON_VALUE_ARRAY THEN none(NOT_A_LIST) ELSE some(v.n)

at_index(v, i) ==
    IF v.type # KJSON_VALUE_ARRAY THEN none(NOT_A_LIST)
    ELSE IF v.n <= i THEN none(INDEX_OUT_OF_BOUNDS)
    ELSE some(i)

begin(v) ==
    IF v.type # KJSON_VALUE_ARRAY THEN none(NOT_A_LIST) ELSE some(0)

end(v) ==
    IF v.type # KJSON_VALUE_ARRAY THEN none(NOT_A_LIST) ELSE some(v.n)

get_string(v) ==
    IF v.type # KJSON_VALUE_STRING THEN none(NOT_A_STRING) ELSE some(0)

get_number_rep(v) ==
    IF v.type # NUMERIC THEN none(NOT_A_NUMBER) ELSE some(0)

get_bool(v) ==
    IF v.type # KJSON_VALUE_BOOLEAN THEN none(NOT_A_BOOLEAN) ELSE some(0)

get_null(v) ==
    IF v.type # KJSON_VALUE_NULL THEN none(NOT_NULL) ELSE some(0)

(* get<T>() for a number type T: Opt::bind of get_number_rep and from_chars, *)
(* v.num_ok telling whether from_chars reads the whole representation       *)
get_number(v) ==
    IF ~get_number_rep(v).has THEN get_number_rep(v)
    ELSE IF ~v.num_ok THEN none(PARSE_NUMBER)
    ELSE some(0)

(* parse(): ok is what kjson_parse2 returned *)
parse(ok) ==
    IF ~ok THEN none(PARSE_JSON) ELSE some(0)

(* the member a request names, applied to the value *)
Member(v, req) ==
    CASE req.op = "count"          -> count(v, req.sv)
      [] req.op = "contains"       -> contains(v, req.sv)
      [] req.op = "get"            -> get(v, req.sv)
      [] req.op = "at_key"         -> at_key(v, req.sv)
      [] req.op = "size"           -> size(v)
      [] req.op = "at_index"       -> at_index(v, req.i)
      [] req.op = "begin"          -> begin(v)
      [] req.op = "end"            -> end(v)
      [] req.op = "get_string"     -> get_string(v)
      [] req.op = "get_number_rep" -> get_number_rep(v)
      [] req.op = "get_bool"       -> get_bool(v)
      [] req.op = "get_null"       -> get_null(v)
      [] req.op = "get_number"     -> get_number(v)
      [] req.op = "parse"          -> parse(v.type # KJSON_VALUE_N + 1)

(* the values a member is called on and the requests *)
MaxEntries == 2

CxxKeys == { "x", "y" }

ParseFailed == [type |-> KJSON_VALUE_N + 1, n |-> 0, keys |-> << >>, num_ok |-> FALSE]

CxxValues ==
    { [type |-> t, n |-> 0, keys |-> << >>, num_ok |-> FALSE] :
        t \in { KJSON_VALUE_NULL, KJSON_VALUE_BOOLEAN, KJSON_VALUE_STRING } }
    \cup { [type |-> NUMERIC, n |-> 0, keys |-> << >>, num_ok |-> b] : b \in BOOLEAN }
    \cup { [type |-> KJSON_VALUE_ARRAY, n |-> n, keys |-> << >>, num_ok |-> FALSE] :
             n \in 0..MaxEntries }
    \cup { [type |-> KJSON_VALUE_OBJECT, n |-> Len(ks), keys |-> ks, num_ok |-> FALSE] :
             ks \in UNION { [1..n -> CxxKeys] : n \in 0..MaxEntries } }

CxxRequests ==
    { [op |-> o, sv |-> k, i |-> 0] :
        o \in { "count", "contains", "get", "at_key" }, k \in CxxKeys }
    \cup { [op |-> "at_index", sv |-> "", i |-> i] : i \in 0..MaxEntries }
    \cup { [op |-> o, sv |-> "", i |-> 0] :
             o \in { "size", "begin", "end", "get_string", "get_number_rep",
                     "get_bool", "get_null", "get_number" } }

InitCxx ==
    /\ src = << NUL >>
    /\ buf = src
    /\ mode \in ParseModes
    /\ pc = "cxx"
    /\ sres = NoResult
    /\ p = [s |-> 1]
    /\ mid2 = Mid2Init
    /\ trace = << >>
    /\ rec = NoRec
    /\ high_cb = high_cb_init
    /\ result = "none"
    /\ fin = NoFin
    /\ num = NoNum
    /\ \E v \in CxxValues \cup { ParseFailed } :
       \E req \in IF v = ParseFailed
                  THEN { [op |-> "parse", sv |-> "", i |-> 0] }
                  ELSE CxxRequests \cup { [op |-> "parse", sv |-> "", i |-> 0] } :
         cxx = [NoCxx EXCEPT !.v = v, !.req = req]

(* one call of a member; Opt::none throws opt_throw::exception *)
CxxCall ==
    /\ pc = "cxx"
    /\ \E r \in { Member(cxx.v, cxx.req) } :
         IF r.has
         THEN /\ cxx' = [cxx EXCEPT !.ret = r]
              /\ pc' = "returned"
         ELSE \E x \in exception(r.err) :
                /\ cxx' = [cxx EXCEPT !.ret = r, !.thrown = x]
                /\ pc' = IF x.over THEN "undefined" ELSE "thrown"
    /\ UNCHANGED << src, buf, mode, sres, p, mid2, trace, rec, high_cb, result, fin, num >>

NextCxx == CxxCall
SpecCxx == InitCxx /\ [][NextCxx]_vars

(* the message that describes a code *)
Describes(code) ==
    CASE code = PARSE_JSON          -> "JSON parse error"
      [] code = NOT_NULL            -> "not null"
      [] code = NOT_A_BOOLEAN       -> "not a boolean"
      [] code = NOT_A_NUMBER        -> "not a number"
      [] code = NOT_A_STRING        -> "not a string"
      [] code = NOT_A_LIST          -> "not a list"
      [] code = NOT_AN_OBJECT       -> "not an object"
      [] code = KEY_NOT_UNIQUE      -> "key not unique"
      [] code = KEY_NOT_FOUND       -> "key not found"
      [] code = INDEX_OUT_OF_BOUNDS -> "index out of bounds"
      [] code = PARSE_NUMBER        -> "number parse error"

(* C30: whenever a member of kjson_impl<opt_throw> throws, the index        *)
(* static_cast<int>(code) lies inside error_messages and the message of     *)
(* the exception is the one that describes the code.                        *)
C30_MessageDescribesCode ==
    cxx.thrown.code # 0 =>
        /\ ~cxx.thrown.over
        /\ cxx.thrown.what = Msg(Describes(cxx.thrown.code))

====
